---------------------------- MODULE Spec2Model ----------------------------
(***************************************************************************)
(* AI Shield: the heuristic text-risk scorer AIAnalysisService.analyzeText *)
(* as a state machine of calls and their completions.                      *)
(*                                                                         *)
(* Texts are TLA+ strings; a character is a string of length 1.            *)
(* Real numbers of the source (weights, scores, Math.random()) are kept in *)
(* fixed point, in thousandths: 0.3 is 300, 1 is One.  Every real the code *)
(* computes from the rule weights and the 0.1/0.2 increments is a multiple *)
(* of 0.01, so the double rounding error (< 1e-12) never moves a value     *)
(* across a Math.round or comparison boundary and the fixed-point result   *)
(* is the one the program produces.                                        *)
(***************************************************************************)
EXTENDS Integers, Sequences, FiniteSets, TLC

\* ------------------------------------------------------------------ bounds
\* Most analyzeText calls made in one behaviour of Spec.
MaxCalls == 3
\* Most vocabulary fragments concatenated into one input text of SpecText.
MaxFrags == 2

\* The number 1 in fixed point (thousandths): the clamp of Math.min(..., 1).
One == 1000

\* ------------------------------------------------------- characters, strings
UpperCaseLetters == "ABCDEFGHIJKLMNOPQRSTUVWXYZ"
LowerCaseLetters == "abcdefghijklmnopqrstuvwxyz"
Digits == "0123456789"

CharAt(s, i) == SubSeq(s, i, i)

Positions(s) == 1..Len(s)

CharsOf(s) == {CharAt(s, i) : i \in Positions(s)}

UpperSet == CharsOf(UpperCaseLetters)
LetterSet == CharsOf(UpperCaseLetters) \cup CharsOf(LowerCaseLetters)
DigitSet == CharsOf(Digits)

IsUpper(c) == c \in UpperSet
IsLetter(c) == c \in LetterSet
IsDigit(c) == c \in DigitSet

\* \s of a JavaScript regular expression (the ASCII members).
IsWhiteSpace(c) == c \in {" ", "\t", "\n", "\r", "\f"}

\* The characters `.` does not match.
IsLineTerminator(c) == c \in {"\n", "\r"}

\* \w of a JavaScript regular expression.
IsWordChar(c) == IsLetter(c) \/ IsDigit(c) \/ c = "_"

Min(S) == CHOOSE x \in S : \A y \in S : x <= y
Max(S) == CHOOSE x \in S : \A y \in S : x >= y

\* The lower-case letter of each upper-case letter.
LowerOf ==
  [c \in UpperSet |->
     CharAt(LowerCaseLetters,
            CHOOSE i \in Positions(UpperCaseLetters) : CharAt(UpperCaseLetters, i) = c)]

\* Mutant of LowerChar: no case folding (the i flag and toLowerCase forgotten).
LowerCharCaseSensitive(c) == c

LowerChar(c) == IF IsUpper(c) THEN LowerOf[c] ELSE c

\* String.prototype.toLowerCase, character by character (the string is cut
\* in halves to keep the recursion shallow).
RECURSIVE ToLowerCase(_)
ToLowerCase(s) ==
  IF Len(s) = 0 THEN ""
  ELSE IF Len(s) = 1 THEN LowerChar(s)
  ELSE LET h == Len(s) \div 2
       IN ToLowerCase(SubSeq(s, 1, h)) \o ToLowerCase(SubSeq(s, h + 1, Len(s)))

\* String.prototype.includes
Includes(s, word) ==
  \E i \in 1..(Len(s) - Len(word) + 1) : SubSeq(s, i, i + Len(word) - 1) = word

\* The number of characters of s that belong to the set S.
CountChars(s, S) == Cardinality({i \in Positions(s) : CharAt(s, i) \in S})

\* type.replace(/_/g, " ")
RECURSIVE ReplaceUnderscores(_)
ReplaceUnderscores(s) ==
  IF s = "" THEN ""
  ELSE (IF Head(s) = "_" THEN " " ELSE Head(s)) \o ReplaceUnderscores(Tail(s))

\* ------------------------------------------------------- regular expressions
\* A pattern of the rule table is a sequence of alternatives; an alternative
\* <<head, tail>> is the literal head when tail = "", and head.*tail otherwise.
\* All patterns carry the flags g and i.

\* Where an alternative that starts at i ends (the index after its last
\* character), or 0 when it does not match at i.  s is already case-folded.
\* `.*` is greedy and stops at a line terminator.
AltEnd(s, i, alt) ==
  LET head == alt[1]
      tail == alt[2]
      k == i + Len(head)
  IN IF k - 1 > Len(s) \/ SubSeq(s, i, k - 1) # head THEN 0
     ELSE IF tail = "" THEN k
     ELSE LET stops == {p \in k..Len(s) : IsLineTerminator(CharAt(s, p))}
              limit == IF stops = {} THEN Len(s) + 1 ELSE Min(stops)
              ends == {p \in k..(limit - Len(tail)) : SubSeq(s, p, p + Len(tail) - 1) = tail}
          IN IF ends = {} THEN 0 ELSE Max(ends) + Len(tail)

\* A disjunction matches at i as its first alternative that matches there.
RECURSIVE DisjunctionEnd(_, _, _, _)
DisjunctionEnd(s, i, alts, a) ==
  IF a > Len(alts) THEN 0
  ELSE LET e == AltEnd(s, i, alts[a])
       IN IF e # 0 THEN e ELSE DisjunctionEnd(s, i, alts, a + 1)

\* The matches of a global regular expression from lastIndex i, leftmost
\* first, each sought from where the previous one ended: <<start, end>> pairs.
RECURSIVE MatchSpans(_, _, _)
MatchSpans(s, alts, i) ==
  LET starts == {p \in i..Len(s) : DisjunctionEnd(s, p, alts, 1) # 0}
  IN IF starts = {} THEN <<>>
     ELSE LET p == Min(starts)
              e == DisjunctionEnd(s, p, alts, 1)
          IN <<(<<p, e>>)>> \o MatchSpans(s, alts, e)

\* text.match(pattern) for a /gi pattern: the sequence of matched substrings;
\* the empty sequence stands for null.
StringMatch(text, alts) ==
  LET spans == MatchSpans(ToLowerCase(text), alts, 1)
  IN [k \in 1..Len(spans) |-> SubSeq(text, spans[k][1], spans[k][2] - 1)]


\* ------------------------------------------------------------ the rule table
suspiciousPatterns ==
  << [pattern |-> << <<"urgent", "">>, <<"emergency", "">>, <<"immediate", "">> >>,
      weight |-> 300, type |-> "urgency"],
     [pattern |-> << <<"verify", "">>, <<"confirm", "">>, <<"update", "account">> >>,
      weight |-> 400, type |-> "verification_scam"],
     [pattern |-> << <<"click", "link">>, <<"download", "attachment">> >>,
      weight |-> 500, type |-> "malicious_link"],
     [pattern |-> << <<"limited", "time">>, <<"expires", "soon">>, <<"act", "now">> >>,
      weight |-> 300, type |-> "pressure_tactics"],
     [pattern |-> << <<"congratulations", "">>, <<"winner", "">>, <<"prize", "">>,
                     <<"lottery", "">> >>,
      weight |-> 400, type |-> "lottery_scam"],
     [pattern |-> << <<"investment", "">>, <<"profit", "">>, <<"guaranteed", "return">> >>,
      weight |-> 400, type |-> "investment_fraud"],
     [pattern |-> << <<"love", "">>, <<"relationship", "">>, <<"marry", "">>,
                     <<"soulmate", "">> >>,
      weight |-> 200, type |-> "romance_scam"],
     [pattern |-> << <<"bitcoin", "">>, <<"cryptocurrency", "">>, <<"crypto", "">>,
                     <<"wallet", "">> >>,
      weight |-> 300, type |-> "crypto_scam"],
     [pattern |-> << <<"social", "security">>, <<"irs", "">>, <<"tax", "">>,
                     <<"government", "">> >>,
      weight |-> 400, type |-> "government_impersonation"],
     [pattern |-> << <<"tech", "support">>, <<"computer", "problem">>,
                     <<"virus", "detected">> >>,
      weight |-> 400, type |-> "tech_support_scam"] >>

Rules == 1..Len(suspiciousPatterns)

\* Mutant of LastIndexAfterMatch: the pattern is run once, as pattern.exec or
\* pattern.test would, and keeps the index after the match it found.
LastIndexAfterExec(text, alts) ==
  LET spans == MatchSpans(ToLowerCase(text), alts, 1)
  IN IF spans = <<>> THEN 0 ELSE spans[1][2] - 1

\* pattern.lastIndex once text.match(pattern) has returned.  With the flag g,
\* match sets lastIndex to 0, runs the pattern until it fails, and the failing
\* run sets lastIndex to 0 again.
LastIndexAfterMatch(text, alts) == 0

\* `threatType: primaryThreatType || undefined`: the value of an absent field.
Undefined == "<undefined>"

\* ------------------------------------------------- the forEach over the table
\* Mutant of MatchRisk: a rule adds its weight once, however often it matches.
MatchRiskOnce(weight, matches) == weight

\* What one rule adds to totalRisk: weight * matches.length.
MatchRisk(weight, matches) == weight * Len(matches)

\* Mutant of IsNewMax: >= for >, so the last of several equal weights wins.
IsNewMaxOrEqual(weight, maxWeight) == weight >= maxWeight

\* Mutant of IsNewMax: the first rule that matches stays the primary threat type.
IsNewMaxFirstMatch(weight, maxWeight) == maxWeight = 0

\* Mutant of IsNewMax: every rule that matches becomes the primary threat type.
IsNewMaxAlways(weight, maxWeight) == TRUE

\* `if (weight > maxWeight)`: the rule becomes the primary threat type.
IsNewMax(weight, maxWeight) == weight > maxWeight

\* Mutant of PatternLabel: the underscores of the type are kept.
PatternLabelRaw(type) == type \o " indicators detected"

\* The label pushed to detectedPatterns.
PatternLabel(type) == ReplaceUnderscores(type) \o " indicators detected"

ScanInit ==
  [totalRisk |-> 0, detectedPatterns |-> <<>>, primaryThreatType |-> "", maxWeight |-> 0]

\* The callback of suspiciousPatterns.forEach, applied to one rule.
ScanStep(acc, rule, text) ==
  LET matches == StringMatch(text, rule.pattern)
  IN IF Len(matches) = 0 THEN acc
     ELSE [totalRisk |-> acc.totalRisk + MatchRisk(rule.weight, matches),
           detectedPatterns |-> Append(acc.detectedPatterns, PatternLabel(rule.type)),
           primaryThreatType |-> IF IsNewMax(rule.weight, acc.maxWeight)
                                   THEN ReplaceUnderscores(rule.type)
                                   ELSE acc.primaryThreatType,
           maxWeight |-> IF IsNewMax(rule.weight, acc.maxWeight)
                           THEN rule.weight ELSE acc.maxWeight]

\* The locals after the forEach has visited rules 1..n in table order.
RECURSIVE ScanPatterns(_, _)
ScanPatterns(text, n) ==
  IF n = 0 THEN ScanInit
  ELSE ScanStep(ScanPatterns(text, n - 1), suspiciousPatterns[n], text)

\* --------------------------------------------------------- performNLPAnalysis
\* Mutant of WordCount: empty words are dropped, as split(" ").filter(Boolean)
\* would; a text without a word then has word count 0.
WordCountNonEmpty(text) ==
  Cardinality({i \in Positions(text) :
                 /\ CharAt(text, i) # " "
                 /\ (i = 1 \/ CharAt(text, i - 1) = " ")})

\* text.split(" ").length: one more than the number of separators.
WordCount(text) == CountChars(text, {" "}) + 1

\* text.replace(/\s/g, "").length
NonSpaceLength(text) == Cardinality({i \in Positions(text) : ~IsWhiteSpace(CharAt(text, i))})

\* (text.match(/[!?]/g) || []).length
PunctuationCount(text) == CountChars(text, {"!", "?"})

\* avgWordLength < 4, with avgWordLength = NonSpaceLength / wordCount
ShortWords(text) == NonSpaceLength(text) < 4 * WordCount(text)

\* punctuationRatio > 0.1, with punctuationRatio = PunctuationCount / wordCount
ExcessivePunctuation(text) == 10 * PunctuationCount(text) > WordCount(text)

\* wordCount < 50
ShortMessage(text) == WordCount(text) < 50

Least(a, b) == IF a <= b THEN a ELSE b

\* Mutant of performNLPAnalysis: the three checks form an else-if chain.
performNLPAnalysisElseIf(text) ==
  Least(IF ShortWords(text) THEN 100
        ELSE IF ExcessivePunctuation(text) THEN 200
        ELSE IF ShortMessage(text) THEN 100 ELSE 0, One)

performNLPAnalysis(text) ==
  Least((IF ShortWords(text) THEN 100 ELSE 0)
        + (IF ExcessivePunctuation(text) THEN 200 ELSE 0)
        + (IF ShortMessage(text) THEN 100 ELSE 0), One)

\* ------------------------------------------------------------ analyzeSentiment
positiveWords == <<"great", "amazing", "wonderful", "fantastic", "excellent", "perfect">>
negativeWords == <<"urgent", "problem", "issue", "error", "warning", "suspended">>
manipulativeWords == <<"limited", "exclusive", "secret", "guaranteed", "free", "winner">>

\* words.filter((word) => lowerText.includes(word)).length
WordListCount(words, lowerText) ==
  Len(SelectSeq(words, LAMBDA word : Includes(lowerText, word)))

\* Mutant of SentimentCounts: the words are sought in text, not in lowerText.
SentimentCountsCaseSensitive(text) ==
  [positiveCount |-> WordListCount(positiveWords, text),
   negativeCount |-> WordListCount(negativeWords, text),
   manipulativeCount |-> WordListCount(manipulativeWords, text)]

SentimentCounts(text) ==
  LET lowerText == ToLowerCase(text)
  IN [positiveCount |-> WordListCount(positiveWords, lowerText),
      negativeCount |-> WordListCount(negativeWords, lowerText),
      manipulativeCount |-> WordListCount(manipulativeWords, lowerText)]

\* Mutant of SentimentLabel: the negative/positive comparison comes first.
SentimentLabelCountsFirst(positiveCount, negativeCount, manipulativeCount) ==
  IF negativeCount > positiveCount THEN "Fear-inducing"
  ELSE IF positiveCount > negativeCount THEN "Overly Positive"
  ELSE IF manipulativeCount > 2 THEN "Highly Manipulative"
  ELSE "Neutral"

\* The cascade of returns that ends analyzeSentiment.
SentimentLabel(positiveCount, negativeCount, manipulativeCount) ==
  IF manipulativeCount > 2 THEN "Highly Manipulative"
  ELSE IF negativeCount > positiveCount THEN "Fear-inducing"
  ELSE IF positiveCount > negativeCount THEN "Overly Positive"
  ELSE "Neutral"

analyzeSentiment(text) ==
  LET c == SentimentCounts(text)
  IN SentimentLabel(c.positiveCount, c.negativeCount, c.manipulativeCount)

\* ---------------------------------------------------- detectLinguisticPatterns
\* A run of digits and dashes at i: shape has "d" for \d and "-" for a dash.
ShapeAt(text, i, shape) ==
  /\ i + Len(shape) - 1 <= Len(text)
  /\ \A k \in Positions(shape) :
       IF CharAt(shape, k) = "d" THEN IsDigit(CharAt(text, i + k - 1))
       ELSE CharAt(text, i + k - 1) = "-"

\* \b before position i and after position j, both of which hold word characters.
WordBoundaries(text, i, j) ==
  /\ i = 1 \/ ~IsWordChar(CharAt(text, i - 1))
  /\ j = Len(text) \/ ~IsWordChar(CharAt(text, j + 1))

IsLocalPartChar(c) == IsLetter(c) \/ IsDigit(c) \/ c \in {".", "_", "%", "+", "-"}
IsDomainChar(c) == IsLetter(c) \/ IsDigit(c) \/ c \in {".", "-"}

\* /[a-zA-Z0-9._%+-]+@[a-zA-Z0-9.-]+\.[a-zA-Z]{2,}/
HasEmail(text) ==
  \E at \in Positions(text) :
    /\ CharAt(text, at) = "@"
    /\ at > 1 /\ IsLocalPartChar(CharAt(text, at - 1))
    /\ \E dot \in (at + 2)..(Len(text) - 2) :
         /\ CharAt(text, dot) = "."
         /\ \A p \in (at + 1)..(dot - 1) : IsDomainChar(CharAt(text, p))
         /\ IsLetter(CharAt(text, dot + 1)) /\ IsLetter(CharAt(text, dot + 2))

detectLinguisticPatterns(text) ==
  (IF \E i \in Positions(text) :
        i + 2 <= Len(text) /\ \A k \in 0..2 : IsUpper(CharAt(text, i + k))
     THEN <<"Excessive capitalization">> ELSE <<>>)
  \o (IF Includes(text, "!!") THEN <<"Multiple exclamation marks">> ELSE <<>>)
  \o (IF \E i \in Positions(text) : ShapeAt(text, i, "dddd-dddd-dddd-dddd")
        THEN <<"Credit card number pattern">> ELSE <<>>)
  \o (IF \E i \in Positions(text) :
           ShapeAt(text, i, "ddd-dd-dddd") /\ WordBoundaries(text, i, i + 10)
        THEN <<"SSN pattern detected">> ELSE <<>>)
  \o (IF HasEmail(text) THEN <<"Email address present">> ELSE <<>>)

\* -------------------------------------------------- detectBehavioralIndicators
detectBehavioralIndicators(text) ==
  LET lower == ToLowerCase(text)
  IN (IF Includes(lower, "don't tell anyone") THEN <<"Secrecy request">> ELSE <<>>)
     \o (IF Includes(lower, "act now") \/ Includes(lower, "hurry")
           THEN <<"Time pressure">> ELSE <<>>)
     \o (IF Includes(lower, "verify") \/ Includes(lower, "confirm")
           THEN <<"Information harvesting">> ELSE <<>>)
     \o (IF Includes(lower, "click") \/ Includes(lower, "download")
           THEN <<"Action request">> ELSE <<>>)

\* ---------------------------------------------------- generateRecommendations
baseRecommendations ==
  <<"Do not respond to this message",
    "Verify sender identity through official channels",
    "Report this message to authorities">>

romanceRecommendations ==
  <<"Never send money to someone you haven't met in person",
    "Be suspicious of quick declarations of love",
    "Verify photos using reverse image search">>

investmentRecommendations ==
  <<"Research investment opportunities independently",
    "Be wary of guaranteed high returns",
    "Consult with a financial advisor">>

techSupportRecommendations ==
  <<"Never give remote access to your computer",
    "Contact tech support through official channels only",
    "Be suspicious of unsolicited tech support calls">>

safeRecommendations == <<"Message appears safe, but always verify sender identity">>

\* Mutant of specificRecommendations: the table is keyed by the rule types as
\* the rule table spells them, with underscores.
specificRecommendationsByType(threatType) ==
  CASE threatType = "romance_scam" -> romanceRecommendations
    [] threatType = "investment_fraud" -> investmentRecommendations
    [] threatType = "tech_support_scam" -> techSupportRecommendations
    [] OTHER -> <<>>

\* specificRecommendations[threatType] || []
specificRecommendations(threatType) ==
  CASE threatType = "romance scam" -> romanceRecommendations
    [] threatType = "investment fraud" -> investmentRecommendations
    [] threatType = "tech support scam" -> techSupportRecommendations
    [] OTHER -> <<>>

generateRecommendations(riskLevel, threatType) ==
  IF riskLevel = "safe" THEN safeRecommendations
  ELSE baseRecommendations \o specificRecommendations(threatType)

\* ---------------------------------------------------------------- aggregation
\* Math.round of a fixed-point value: the nearest integer, halves upwards.
MathRound(x) == (x + 500) \div One

\* Mutant of ClampRisk: the linguistic score is added without its factor 0.2.
ClampRiskFullNlp(totalRisk, nlpScore) == Least(totalRisk + nlpScore, One)

\* Mutant of ClampRisk: the clamp at 1 is missing.
ClampRiskUnclamped(totalRisk, nlpScore) == totalRisk + (nlpScore * 200) \div One

\* Math.min(totalRisk + nlpScore * 0.2, 1)
ClampRisk(totalRisk, nlpScore) == Least(totalRisk + (nlpScore * 200) \div One, One)

\* Mutant of getRiskLevel: a score of exactly 20 is still "safe".
getRiskLevelAbove(score) ==
  IF score >= 80 THEN "critical"
  ELSE IF score >= 60 THEN "high"
  ELSE IF score >= 40 THEN "medium"
  ELSE IF score > 20 THEN "low"
  ELSE "safe"

getRiskLevel(score) ==
  IF score >= 80 THEN "critical"
  ELSE IF score >= 60 THEN "high"
  ELSE IF score >= 40 THEN "medium"
  ELSE IF score >= 20 THEN "low"
  ELSE "safe"

\* Math.min(85 + Math.random() * 15, 99), in thousandths; random is
\* Math.random() in thousandths, 0 <= random < One.
Confidence(random) == Least(85 * One + random * 15, 99 * One)

\* The values Math.random() takes in the model: the least, and the greatest
\* (which the clamp at 99 cuts).
RandomValues == {0, 999}

\* The locals of analyzeText once the synchronous part has run.
AnalyzeTextLocals(text) ==
  LET scan == ScanPatterns(text, Len(suspiciousPatterns))
      nlpScore == performNLPAnalysis(text)
      counts == SentimentCounts(text)
      totalRisk == ClampRisk(scan.totalRisk, nlpScore)
      riskScore == MathRound(totalRisk * 100)
  IN [suspiciousPatterns |->
        [r \in Rules |->
           [weight |-> suspiciousPatterns[r].weight,
            type |-> suspiciousPatterns[r].type,
            lastIndex |-> LastIndexAfterMatch(text, suspiciousPatterns[r].pattern)]],
      patternRisk |-> scan.totalRisk,
      detectedPatterns |-> scan.detectedPatterns,
      primaryThreatType |-> scan.primaryThreatType,
      maxWeight |-> scan.maxWeight,
      nlpScore |-> nlpScore,
      positiveCount |-> counts.positiveCount,
      negativeCount |-> counts.negativeCount,
      manipulativeCount |-> counts.manipulativeCount,
      sentimentAnalysis |->
        SentimentLabel(counts.positiveCount, counts.negativeCount, counts.manipulativeCount),
      totalRisk |-> totalRisk,
      riskScore |-> riskScore,
      riskLevel |-> getRiskLevel(riskScore)]

\* Mutant of ThreatTypeOf: `|| undefined` is missing.
ThreatTypeOfRaw(primaryThreatType) == primaryThreatType

\* primaryThreatType || undefined
ThreatTypeOf(primaryThreatType) ==
  IF primaryThreatType = "" THEN Undefined ELSE primaryThreatType

\* Mutant of AnalyzeTextReturn: the random jitter is added to the score too.
AnalyzeTextReturnJittered(text, l, random) ==
  [riskScore |-> Least(l.riskScore + random \div 100, 100),
   riskLevel |-> l.riskLevel,
   confidence |-> Confidence(random),
   detectedPatterns |-> l.detectedPatterns,
   threatType |-> ThreatTypeOf(l.primaryThreatType),
   recommendations |-> generateRecommendations(l.riskLevel, l.primaryThreatType),
   technicalDetails |->
     [nlpScore |-> MathRound(l.nlpScore * 100),
      sentimentAnalysis |-> l.sentimentAnalysis,
      linguisticPatterns |-> detectLinguisticPatterns(text),
      behavioralIndicators |-> detectBehavioralIndicators(text)]]

\* Mutant of AnalyzeTextReturn: the confidence grows with the number of rules
\* that matched instead of being drawn at random.
AnalyzeTextReturnEvidence(text, l, random) ==
  [riskScore |-> l.riskScore,
   riskLevel |-> l.riskLevel,
   confidence |-> Least(85 * One + Len(l.detectedPatterns) * 5 * One, 99 * One),
   detectedPatterns |-> l.detectedPatterns,
   threatType |-> ThreatTypeOf(l.primaryThreatType),
   recommendations |-> generateRecommendations(l.riskLevel, l.primaryThreatType),
   technicalDetails |->
     [nlpScore |-> MathRound(l.nlpScore * 100),
      sentimentAnalysis |-> l.sentimentAnalysis,
      linguisticPatterns |-> detectLinguisticPatterns(text),
      behavioralIndicators |-> detectBehavioralIndicators(text)]]

\* The object analyzeText returns.
AnalyzeTextReturn(text, l, random) ==
  [riskScore |-> l.riskScore,
   riskLevel |-> l.riskLevel,
   confidence |-> Confidence(random),
   detectedPatterns |-> l.detectedPatterns,
   threatType |-> ThreatTypeOf(l.primaryThreatType),
   recommendations |-> generateRecommendations(l.riskLevel, l.primaryThreatType),
   technicalDetails |->
     [nlpScore |-> MathRound(l.nlpScore * 100),
      sentimentAnalysis |-> l.sentimentAnalysis,
      linguisticPatterns |-> detectLinguisticPatterns(text),
      behavioralIndicators |-> detectBehavioralIndicators(text)]]

\* ------------------------------------------------------------------ the inputs
RECURSIVE Repeat(_, _)
Repeat(s, n) == IF n = 0 THEN "" ELSE s \o Repeat(s, n - 1)

UrgentVerifyText == "URGENT, verify your account now!!!"
LoveBitcoinText == "I love you, let's get married, please send bitcoin"
\* Fifty words and more, so that `wordCount < 50` fails: with none of the
\* other two linguistic signals, with short words, with punctuation, with both.
LongPlainText == Repeat("hello ", 50)
LongShortWordsText == Repeat("go on ", 25)
LongPunctuatedText == Repeat("hello! ", 50)
LongShoutedText == Repeat("go! ", 50)

\* Texts without a word: spaces only, punctuation only.
OnlySpacesText == "   "
OnlyPunctuationText == "!?!"

\* A `.*` that swallows a second keyword, and one that a line break stops.
UpdateVerifyText == "update it, then verify your account"
BrokenLinkText == "click\nthe link"

Vocabulary ==
  {"URGENT! ", "verify your account ", "act now!!\n", "I love you ", "send bitcoin ",
   "click the link", "limited time, free guaranteed winner ", "great investment ",
   "tax problem ", "tech support "}

ExampleTexts ==
  {UrgentVerifyText, LoveBitcoinText, UpdateVerifyText, BrokenLinkText,
   LongPlainText, LongShortWordsText, LongPunctuatedText, LongShoutedText,
   LongPlainText \o "love", LongPlainText \o "verify",
   LongPlainText \o "urgent crypto", LongPlainText \o "verify confirm",
   OnlySpacesText, OnlyPunctuationText}

RECURSIVE TextsOf(_)
TextsOf(n) ==
  IF n = 0 THEN {""} ELSE {t \o f : t \in TextsOf(n - 1), f \in Vocabulary}

\* The texts of SpecText: every concatenation of at most MaxFrags fragments,
\* and the examples.
Texts ==
  UNION {TextsOf(n) : n \in 0..MaxFrags}
    \cup ExampleTexts

\* The texts of Spec, where calls overlap and repeat.
ServiceTexts == {"", UrgentVerifyText, "I love you "}

AllTexts == Texts \cup ServiceTexts

\* AnalyzeTextLocals, evaluated once for each text of the model.
LocalsOf == [text \in AllTexts |-> AnalyzeTextLocals(text)]

\* ------------------------------------------------------------------- the state
\* calls: every analyzeText call made so far, in call order.  A call is
\* "waiting" from the call until its 1500 ms timer fires, then "done" with the
\* value its promise resolved to and the locals that value was built from
\* (the rule table of the call among them, as the call leaves it).
\* instance: the static field AIAnalysisService.instance, 0 while it is unset,
\* otherwise the number of the object it refers to.
\* constructed: how many AIAnalysisService objects have been constructed.
\* handles: what the calls of AIAnalysisService.getInstance returned, call by
\*   call.
VARIABLES calls, instance, constructed, handles

\* The state of the SecurityAdvisor component and of what it talks to.
\* chatMessages, chatInput, currentSessionId, isLoadingChat: its useState
\*   cells (currentSessionId is NoSession for null).
\* createSessionMutation, sendMessageMutation: the state of the two mutations.
\* submits: the handleChatSubmit calls made so far, each with its phase.
\* messagesCache: the data of the chat-messages query, session by session.
\* messagesFetching: the sessions whose chat-messages query is being fetched.
\* serverMessages: the messages the backend holds, session by session.
\* now: the clock Date.now() reads, in milliseconds.
\* lastFetchAt: when the latest fetch of the chat-messages query of the
\*   session on display started (0 while there was none).
\* requests: the requests sent to chatbot endpoints so far, each with the
\*   auth_token localStorage held when it was sent and the Authorization
\*   header it carried.
VARIABLES chatMessages, chatInput, currentSessionId, isLoadingChat,
          createSessionMutation, sendMessageMutation, submits,
          messagesCache, messagesFetching, serverMessages, now,
          lastFetchAt, requests

\* The state of the AuthProvider component and of what it talks to.
\* storedToken: the auth_token item of localStorage (NoToken when absent).
\* token, user: its useState cells (NoToken, NoUser for null).
\* currentUserQuery: status, data and error of the current-user query.
\* currentUserFetching: the request of that query in flight, with the token
\*   its Authorization header carries.
\* currentUserEnabled: the `enabled` option as the last render computed it.
\* loginMutation: the state of LoginDemo's login mutation.
\* validTokens: the tokens the backend accepts.
\* issued: how many tokens the backend has issued.
VARIABLES storedToken, token, user, currentUserQuery, currentUserFetching,
          currentUserEnabled, loginMutation, validTokens, issued

\* The state of the ThreatIntelligenceService singleton.
\* threatInstance, threatConstructed, threatHandles: as instance, constructed
\*   and handles, for ThreatIntelligenceService.
\* threats, darkWebIntel: the two private arrays of the instance.
\* generated: how often generateMockThreats and generateDarkWebIntel ran.
\* returned: the method last called on the instance, the array it returned
\*   and the number of the call.
VARIABLES threatInstance, threatConstructed, threatHandles,
          threats, darkWebIntel, generated, returned

\* The state of the EnhancedScamDetection component.
\* messageText, isAnalyzing, analysisResult, voiceAnalysis, videoAnalysis:
\*   its useState cells (NoAnalysis for null).
\* analyses: the analyses it started that are still in flight, in the order
\*   in which they were started.
\* started: how many analyses it has started.
VARIABLES messageText, isAnalyzing, analysisResult, voiceAnalysis, videoAnalysis,
          analyses, started

aiVars == <<calls, instance, constructed, handles>>

threatVars ==
  <<threatInstance, threatConstructed, threatHandles,
    threats, darkWebIntel, generated, returned>>

scamVars ==
  <<messageText, isAnalyzing, analysisResult, voiceAnalysis, videoAnalysis,
    analyses, started>>

authVars ==
  <<storedToken, token, user, currentUserQuery, currentUserFetching,
    currentUserEnabled, loginMutation, validTokens, issued>>

chatVars ==
  <<chatMessages, chatInput, currentSessionId, isLoadingChat,
    createSessionMutation, sendMessageMutation, submits,
    messagesCache, messagesFetching, serverMessages, now,
    lastFetchAt, requests>>

vars == <<aiVars, chatVars, authVars, threatVars, scamVars>>

NoInstance == 0

\* How many getInstance calls of each service the model follows.
MaxGets == 2

\* Mutant of IsUnset: the static field is not looked at.
IsUnsetAlways(field) == TRUE

\* `!AIAnalysisService.instance`, `!ThreatIntelligenceService.instance`
IsUnset(field) == field = NoInstance

\* AIAnalysisService.getInstance()
getInstance ==
  /\ Len(handles) < MaxGets
  /\ IF IsUnset(instance)
       THEN /\ constructed' = constructed + 1
            /\ instance' = constructed + 1
       ELSE UNCHANGED <<instance, constructed>>
  /\ handles' = Append(handles, instance')
  /\ UNCHANGED <<calls, chatVars, authVars, threatVars, scamVars>>

\* Mutant of AnalyzeTextCall: the await on the timer is missing, the call
\* runs to its return at once.
AnalyzeTextCallSync(text) ==
  /\ instance # NoInstance
  /\ Len(calls) < MaxCalls
  /\ UNCHANGED <<instance, constructed, handles, chatVars, authVars, threatVars, scamVars>>
  /\ \E random \in RandomValues :
       calls' = Append(calls, [text |-> text, state |-> "done",
                               locals |-> LocalsOf[text],
                               result |-> AnalyzeTextReturn(text, LocalsOf[text], random)])

\* analyzeText(text) up to the await: the timer is set, the promise returned.
\* It is a method of the instance that getInstance has handed out.
AnalyzeTextCall(text) ==
  /\ instance # NoInstance
  /\ Len(calls) < MaxCalls
  /\ UNCHANGED <<instance, constructed, handles, chatVars, authVars, threatVars, scamVars>>
  /\ calls' = Append(calls, [text |-> text, state |-> "waiting"])

\* The timer of call i fires: the rest of analyzeText runs to its return.
AnalyzeTextResume(i) ==
  /\ calls[i].state = "waiting"
  /\ UNCHANGED <<instance, constructed, handles, chatVars, authVars, threatVars, scamVars>>
  /\ LET text == calls[i].text
         l == LocalsOf[text]
     IN \E random \in RandomValues :
          calls' = [calls EXCEPT ![i] =
                      [text |-> text, state |-> "done", locals |-> l,
                       result |-> AnalyzeTextReturn(text, l, random)]]

NoSession == 0
\* The data of a query that has not been fetched (undefined), and fetched data.
NoData == [defined |-> FALSE, value |-> <<>>]
Data(value) == [defined |-> TRUE, value |-> value]

\* Date.now() when the page is loaded.
PageLoadTime == 1000

InitService ==
  /\ calls = <<>>
  /\ instance = NoInstance
  /\ constructed = 0
  /\ handles = <<>>

\* SecurityAdvisor as its first render leaves it, and a backend without
\* sessions.
InitChat ==
  /\ chatMessages = <<>>
  /\ chatInput = ""
  /\ currentSessionId = NoSession
  /\ isLoadingChat = FALSE
  /\ createSessionMutation = [status |-> "idle", caller |-> "none"]
  /\ sendMessageMutation = [status |-> "idle"]
  /\ submits = <<>>
  /\ messagesCache = <<>>
  /\ messagesFetching = {}
  /\ serverMessages = <<>>
  /\ now = PageLoadTime
  /\ lastFetchAt = 0

NoToken == 0
NoUser == "<null>"
NoFetch == [active |-> FALSE, token |-> NoToken]

\* The current-user query before any fetch.
NoResult == [status |-> "pending", data |-> NoUser, error |-> FALSE]

\* The chatbot endpoints.
CreateChatSession == "POST /chatbot/sessions"
SendChatMessage == "POST /chatbot/sessions/{sessionId}/messages"
GetChatMessages == "GET /chatbot/sessions/{sessionId}/messages"
GetChatSessions == "GET /chatbot/sessions"

ChatEndpoints == {CreateChatSession, SendChatMessage, GetChatMessages, GetChatSessions}

\* The Authorization header of a request: absent, or `Bearer ${t}`.
NoAuthorization == [present |-> FALSE, token |-> NoToken]
Bearer(t) == [present |-> TRUE, token |-> t]

\* Mutant of ChatRequestHeaders: the stored token is sent when there is one.
ChatRequestHeadersBearer(stored) ==
  IF stored # NoToken THEN Bearer(stored) ELSE NoAuthorization

\* The Authorization header of the four chatbot functions of api: their
\* fetch calls pass Content-Type at most, and do not read localStorage.
ChatRequestHeaders(stored) == NoAuthorization

\* A request to a chatbot endpoint, as it is sent now.
ChatRequest(endpoint) ==
  [endpoint |-> endpoint, stored |-> storedToken,
   authorization |-> ChatRequestHeaders(storedToken)]

\* The requests the first render sends: useChatSessions fetches the list of
\* sessions on mount.
InitRequests == requests = {ChatRequest(GetChatSessions)}

\* No method of ThreatIntelligenceService has been called.
NoReturn == [method |-> "none", value |-> <<>>, nth |-> 0]

InitThreat ==
  /\ threatInstance = NoInstance
  /\ threatConstructed = 0
  /\ threatHandles = <<>>
  /\ threats = <<>>
  /\ darkWebIntel = <<>>
  /\ generated = [threats |-> 0, darkWebIntel |-> 0]
  /\ returned = NoReturn

\* useState(null) of the three analysis results, and a result.
NoAnalysis == [defined |-> FALSE, value |-> <<>>]
Analysis(value) == [defined |-> TRUE, value |-> value]

\* EnhancedScamDetection as its first render leaves it.
InitScam ==
  /\ messageText = ""
  /\ isAnalyzing = FALSE
  /\ analysisResult = NoAnalysis
  /\ voiceAnalysis = NoAnalysis
  /\ videoAnalysis = NoAnalysis
  /\ analyses = <<>>
  /\ started = 0

\* AuthProvider as its first render and its mount effect leave it when
\* localStorage holds the token `stored` (or none): the token is copied into
\* the state, and the current-user query is enabled and fetching exactly when
\* there is a stored token.
InitAuthWith(stored, valid) ==
  /\ storedToken = stored
  /\ token = stored
  /\ user = NoUser
  /\ currentUserQuery = NoResult
  /\ currentUserFetching = [active |-> stored # NoToken, token |-> stored]
  /\ currentUserEnabled = (stored # NoToken)
  /\ loginMutation = [status |-> "idle"]
  /\ validTokens = valid
  /\ issued = IF stored = NoToken THEN 0 ELSE 1

\* A first visit: nothing stored.
InitAuth == InitAuthWith(NoToken, {})

Init == InitService /\ InitChat /\ InitAuth /\ InitRequests /\ InitThreat /\ InitScam

Next ==
  \/ getInstance
  \/ \E text \in ServiceTexts : AnalyzeTextCall(text)
  \/ \E i \in 1..Len(calls) : AnalyzeTextResume(i)

Spec == Init /\ [][Next]_vars

\* One call, of any text of Texts.
NextText ==
  \/ getInstance
  \/ \E text \in Texts : calls = <<>> /\ AnalyzeTextCall(text)
  \/ \E i \in 1..Len(calls) : AnalyzeTextResume(i)

SpecText == Init /\ [][NextText]_vars

Done == {i \in 1..Len(calls) : calls[i].state = "done"}

\* ================================================================== claims
Range(seq) == {seq[k] : k \in 1..Len(seq)}

\* The completed calls of a given text.
DoneCalls(text) == {i \in Done : calls[i].text = text}

\* The threshold ladder as the specification states it.
LadderBucket(score) ==
  CASE score >= 80 -> "critical"
    [] score >= 60 /\ score < 80 -> "high"
    [] score >= 40 /\ score < 60 -> "medium"
    [] score >= 20 /\ score < 40 -> "low"
    [] OTHER -> "safe"

BucketRank(level) ==
  CASE level = "safe" -> 0
    [] level = "low" -> 1
    [] level = "medium" -> 2
    [] level = "high" -> 3
    [] level = "critical" -> 4

\* C1: every result has an integer riskScore in 0..100, its riskLevel is the
\* bucket the ladder assigns to that riskScore, and the bucket never
\* decreases as the score increases.
C1_ScoreInRangeAndBucketed ==
  /\ \A i \in Done :
       /\ calls[i].result.riskScore \in 0..100
       /\ calls[i].result.riskLevel = LadderBucket(calls[i].result.riskScore)
  /\ \A score \in 0..99 :
       BucketRank(getRiskLevel(score)) <= BucketRank(getRiskLevel(score + 1))

\* A call whose accumulated pattern weight exceeds 1 and is clamped to 100.
C1_Witness ==
  \E i \in Done :
    /\ calls[i].locals.patternRisk > One
    /\ calls[i].result.riskScore = 100
    /\ calls[i].result.riskLevel = "critical"

Detected(i, label) == label \in Range(calls[i].result.detectedPatterns)

\* C2 as stated: "URGENT, verify your account now!!!" is detected as urgency,
\* verification scam and pressure tactics, with riskLevel medium or higher.
C2_Original ==
  \A i \in DoneCalls(UrgentVerifyText) :
    /\ Detected(i, "urgency indicators detected")
    /\ Detected(i, "verification scam indicators detected")
    /\ Detected(i, "pressure tactics indicators detected")
    /\ calls[i].result.riskLevel \in {"medium", "high", "critical"}

\* C2 amended: "URGENT, verify your account now!!!" is detected as urgency and
\* verification scam and nothing else (the text holds no "act"), with
\* riskLevel medium or higher.
C2_UrgentVerify ==
  \A i \in DoneCalls(UrgentVerifyText) :
    /\ calls[i].result.detectedPatterns =
         <<"urgency indicators detected", "verification scam indicators detected">>
    /\ calls[i].result.riskLevel \in {"medium", "high", "critical"}

C2_Witness == \E i \in DoneCalls(UrgentVerifyText) : calls[i].result.riskScore = 76

\* C3 as stated: "I love you, let's get married, please send bitcoin" is
\* detected as romance scam and crypto scam, and its recommendations hold a
\* romance-scam tip.
C3_Original ==
  \A i \in DoneCalls(LoveBitcoinText) :
    /\ Detected(i, "romance scam indicators detected")
    /\ Detected(i, "crypto scam indicators detected")
    /\ Range(calls[i].result.recommendations) \cap Range(romanceRecommendations) # {}

\* C3 amended: the text is detected as romance scam and crypto scam, its
\* threatType is "crypto scam" and its recommendations are the three generic
\* actions alone, without any romance-scam tip.
C3_LoveBitcoin ==
  \A i \in DoneCalls(LoveBitcoinText) :
    /\ Detected(i, "romance scam indicators detected")
    /\ Detected(i, "crypto scam indicators detected")
    /\ calls[i].result.threatType = "crypto scam"
    /\ calls[i].result.recommendations = baseRecommendations
    /\ Range(calls[i].result.recommendations) \cap Range(romanceRecommendations) = {}

C3_Witness ==
  \E i \in DoneCalls(LoveBitcoinText) : Len(calls[i].result.detectedPatterns) = 2

\* C4: the empty string yields riskLevel "safe", no detected pattern, an
\* undefined threatType and the sentiment "Neutral".
C4_EmptyString ==
  \A i \in DoneCalls("") :
    /\ calls[i].result.riskLevel = "safe"
    /\ calls[i].result.detectedPatterns = <<>>
    /\ calls[i].result.threatType = Undefined
    /\ calls[i].result.technicalDetails.sentimentAnalysis = "Neutral"

C4_Witness == \E i \in DoneCalls("") : calls[i].result.riskScore = 4

\* C5: two completed calls of the same text agree on riskScore, riskLevel,
\* detectedPatterns, threatType and recommendations, whatever was called
\* before or between them.
C5_SameTextSameResult ==
  \A i, j \in Done :
    calls[i].text = calls[j].text =>
      /\ calls[i].result.riskScore = calls[j].result.riskScore
      /\ calls[i].result.riskLevel = calls[j].result.riskLevel
      /\ calls[i].result.detectedPatterns = calls[j].result.detectedPatterns
      /\ calls[i].result.threatType = calls[j].result.threatType
      /\ calls[i].result.recommendations = calls[j].result.recommendations

\* Two calls of one text with a call of another text made between them, all
\* completed, the two differing in confidence only.
C5_Witness ==
  /\ Done = {1, 2, 3}
  /\ calls[1].text = calls[3].text
  /\ calls[2].text # calls[1].text
  /\ calls[1].result.confidence # calls[3].result.confidence

\* C6: the sentiment label is "Highly Manipulative" when the manipulative
\* count exceeds 2, whatever the other counts; otherwise "Fear-inducing" when
\* negative > positive, "Overly Positive" when positive > negative, and
\* "Neutral" when they are equal.
C6_SentimentCascade ==
  \A i \in Done :
    LET l == calls[i].locals
        label == calls[i].result.technicalDetails.sentimentAnalysis
    IN /\ l.manipulativeCount > 2 => label = "Highly Manipulative"
       /\ l.manipulativeCount <= 2 /\ l.negativeCount > l.positiveCount
            => label = "Fear-inducing"
       /\ l.manipulativeCount <= 2 /\ l.positiveCount > l.negativeCount
            => label = "Overly Positive"
       /\ l.manipulativeCount <= 2 /\ l.positiveCount = l.negativeCount
            => label = "Neutral"

\* More than two manipulative words together with more negative than
\* positive words: the first rung of the cascade wins.
C6_Witness ==
  \E i \in Done :
    /\ calls[i].locals.manipulativeCount > 2
    /\ calls[i].locals.negativeCount > calls[i].locals.positiveCount
    /\ calls[i].result.technicalDetails.sentimentAnalysis = "Highly Manipulative"

\* word occurs in text at position p, letter case ignored.
OccursAt(text, p, word) ==
  /\ p + Len(word) - 1 <= Len(text)
  /\ \A k \in Positions(word) : LowerChar(CharAt(text, p + k - 1)) = CharAt(word, k)

\* The number of occurrences in text of the words of a list.
Occurrences(text, words) ==
  Cardinality({kp \in (1..Len(words)) \X Positions(text) : OccursAt(text, kp[2], words[kp[1]])})

\* The number of words of a list that occur in text.
WordsPresent(text, words) ==
  Cardinality({k \in 1..Len(words) : \E p \in Positions(text) : OccursAt(text, p, words[k])})

\* C7 as stated: each of the three counts is the number of case-insensitive
\* occurrences of the words of its list, a word that occurs n times counting n.
C7_Original ==
  \A i \in Done :
    /\ calls[i].locals.positiveCount = Occurrences(calls[i].text, positiveWords)
    /\ calls[i].locals.negativeCount = Occurrences(calls[i].text, negativeWords)
    /\ calls[i].locals.manipulativeCount = Occurrences(calls[i].text, manipulativeWords)

\* C7 amended: each of the three counts is the number of words of its list
\* that occur in the text at least once, letter case ignored; a word counts
\* once however often it occurs.
C7_DistinctWordsCounted ==
  \A i \in Done :
    /\ calls[i].locals.positiveCount = WordsPresent(calls[i].text, positiveWords)
    /\ calls[i].locals.negativeCount = WordsPresent(calls[i].text, negativeWords)
    /\ calls[i].locals.manipulativeCount = WordsPresent(calls[i].text, manipulativeWords)

\* An upper-case list word that occurs twice and is counted once.
C7_Witness ==
  \E i \in Done :
    /\ Occurrences(calls[i].text, <<"URGENT">>) = 0
    /\ Occurrences(calls[i].text, negativeWords) = 2
    /\ calls[i].locals.negativeCount = 1

\* matches.length of each rule on each text of the model (0 for null).
MatchCountsOf ==
  [text \in AllTexts |->
     [r \in Rules |-> Len(StringMatch(text, suspiciousPatterns[r].pattern))]]

RECURSIVE WeightSum(_, _)
WeightSum(text, n) ==
  IF n = 0 THEN 0
  ELSE WeightSum(text, n - 1) + suspiciousPatterns[n].weight * MatchCountsOf[text][n]

Matched(text) == {r \in Rules : MatchCountsOf[text][r] > 0}

\* C8: the pattern score is the sum over the ten rules of weight times the
\* number of matches of the rule's pattern; a rule with no match adds 0.
C8_PatternScoreIsWeightedSum ==
  \A i \in Done :
    /\ calls[i].locals.patternRisk = WeightSum(calls[i].text, Len(suspiciousPatterns))
    /\ Matched(calls[i].text) = {} => calls[i].locals.patternRisk = 0

\* A rule that matches twice beside rules that do not match.
C8_Witness ==
  \E i \in Done :
    /\ \E r \in Rules : MatchCountsOf[calls[i].text][r] = 2
    /\ \E r \in Rules : MatchCountsOf[calls[i].text][r] = 0
    /\ calls[i].locals.patternRisk > 0

\* C9: riskScore is the integer nearest to 100 * min(1, patternWeightSum +
\* 0.2 * linguisticScore) (thousandths: riskScore * 1000 is within 500).
C9_RiskScoreFormula ==
  \A i \in Done :
    LET sum == WeightSum(calls[i].text, Len(suspiciousPatterns))
        raw == 10 * sum + 2 * performNLPAnalysis(calls[i].text)
        total == IF raw > 10 * One THEN 10 * One ELSE raw
        score == calls[i].result.riskScore
    IN /\ score * 100 - 50 <= total
       /\ total < score * 100 + 50

\* Pattern weight and the full linguistic score both count, below the clamp.
C9_Witness ==
  \E i \in Done :
    /\ calls[i].locals.patternRisk > 0
    /\ calls[i].locals.nlpScore = 400
    /\ calls[i].result.riskScore < 100

\* The matched rules of the highest weight among the matched rules.
Heaviest(text) ==
  {r \in Matched(text) :
     \A q \in Matched(text) : suspiciousPatterns[q].weight <= suspiciousPatterns[r].weight}

\* C10: threatType is undefined exactly when no rule matched; otherwise it
\* is the category (underscores shown as spaces) of the matched rule of the
\* highest weight, the first in table order among equals.
C10_DominantCategory ==
  \A i \in Done :
    LET text == calls[i].text
    IN /\ calls[i].result.threatType = Undefined <=> Matched(text) = {}
       /\ Matched(text) # {} =>
            calls[i].result.threatType =
              ReplaceUnderscores(suspiciousPatterns[Min(Heaviest(text))].type)

\* Two matched rules share the highest weight, after a lighter matched rule.
C10_Witness ==
  \E i \in Done :
    /\ Cardinality(Heaviest(calls[i].text)) >= 2
    /\ \E r \in Matched(calls[i].text) : r < Min(Heaviest(calls[i].text))


\* ---- C11
\* The category-specific tips as the claim lists them, by dominant category.
TipsFor(category) ==
  CASE category = "romance scam" -> romanceRecommendations
    [] category = "investment fraud" -> investmentRecommendations
    [] category = "tech support scam" -> techSupportRecommendations
    [] OTHER -> <<>>

\* C11: the recommendations of a completed call are the one generic-safety
\* string when riskLevel is "safe"; otherwise they are the three generic
\* warning actions, in their order, followed by the tips of the dominant
\* category when it is romance scam, investment fraud or tech support scam,
\* and by nothing for any other dominant category.
C11_Recommendations ==
  \A i \in Done :
    LET r == calls[i].result
        recs == r.recommendations
    IN IF r.riskLevel = "safe"
         THEN recs = <<"Message appears safe, but always verify sender identity">>
         ELSE /\ Len(recs) >= 3
              /\ SubSeq(recs, 1, 3) = <<"Do not respond to this message",
                                        "Verify sender identity through official channels",
                                        "Report this message to authorities">>
              /\ SubSeq(recs, 4, Len(recs)) = TipsFor(calls[i].locals.primaryThreatType)

\* A completed call that is not safe and whose dominant category has tips:
\* the three generic actions, then the three tech-support tips.
C11_Witness ==
  /\ Len(calls) = 1 /\ 1 \in Done
  /\ LET r == calls[1].result
     IN /\ r.riskLevel # "safe"
        /\ r.threatType = "tech support scam"
        /\ Len(r.recommendations) = 6
        /\ r.recommendations[4] = "Never give remote access to your computer"

\* ---- C12
\* The labels, rule by rule, as the claim derives them from the categories.
ExpectedLabels ==
  <<"urgency indicators detected",
    "verification scam indicators detected",
    "malicious link indicators detected",
    "pressure tactics indicators detected",
    "lottery scam indicators detected",
    "investment fraud indicators detected",
    "romance scam indicators detected",
    "crypto scam indicators detected",
    "government impersonation indicators detected",
    "tech support scam indicators detected">>

\* The k-th matched rule of a text, in table order.
NthMatched(text, k) ==
  CHOOSE r \in Matched(text) : Cardinality({q \in Matched(text) : q <= r}) = k

\* C12: detectedPatterns holds exactly one label for every rule that matched
\* at least once and none for a rule that did not, in rule-table order, each
\* label the rule's category with underscores replaced by spaces; how often
\* a rule matched does not change the list.
C12_OneLabelPerMatchedRule ==
  \A i \in Done :
    LET text == calls[i].text
        dp == calls[i].result.detectedPatterns
    IN /\ Len(dp) = Cardinality(Matched(text))
       /\ \A k \in 1..Len(dp) : dp[k] = ExpectedLabels[NthMatched(text, k)]

\* A completed call where one rule matched twice and another once: two labels.
C12_Witness ==
  \E i \in Done :
    /\ \E r \in Rules : MatchCountsOf[calls[i].text][r] >= 2
    /\ Cardinality(Matched(calls[i].text)) >= 2
    /\ Len(calls[i].result.detectedPatterns) = Cardinality(Matched(calls[i].text))

\* ---- C13
\* The three checks, on the quantities the claim names.
Words(text) == Cardinality({p \in Positions(text) : CharAt(text, p) = " "}) + 1
Marks(text) == Cardinality({p \in Positions(text) : CharAt(text, p) \in {"!", "?"}})
Letters(text) ==
  Cardinality({p \in Positions(text) : CharAt(text, p) \notin {" ", "\t", "\n", "\r", "\f"}})

IncrementShortWords(text) == IF Letters(text) < 4 * Words(text) THEN 100 ELSE 0
IncrementPunctuation(text) == IF 10 * Marks(text) > Words(text) THEN 200 ELSE 0
IncrementShortMessage(text) == IF Words(text) < 50 THEN 100 ELSE 0

\* C13: the linguistic score is the sum of three independent increments,
\* clamped to at most 1.0: 0.1 when the average word length is below 4, 0.2
\* when the ratio of '!' and '?' characters to the word count exceeds 0.1,
\* 0.1 when the word count is below 50.
C13_LinguisticScore ==
  \A i \in Done :
    LET text == calls[i].text
        sum == IncrementShortWords(text) + IncrementPunctuation(text)
                 + IncrementShortMessage(text)
    IN calls[i].locals.nlpScore = (IF sum > One THEN One ELSE sum)

\* Completed calls where all three checks fire (score 0.4).
C13_Witness ==
  \E i \in Done :
    /\ IncrementShortWords(calls[i].text) = 100
    /\ IncrementPunctuation(calls[i].text) = 200
    /\ IncrementShortMessage(calls[i].text) = 100
    /\ calls[i].locals.nlpScore = 400

\* ---- C14
RiskLevels == {"safe", "low", "medium", "high", "critical"}
SentimentLabels == {"Highly Manipulative", "Fear-inducing", "Overly Positive", "Neutral"}
IsList(x) == DOMAIN x = 1..Len(x)

\* Every field the claim names has a value of its kind.
FullyDefined(r) ==
  LET t == r.technicalDetails
  IN /\ r.riskScore \in Nat
     /\ r.riskLevel \in RiskLevels
     /\ r.confidence \in Nat
     /\ IsList(r.detectedPatterns)
     /\ IsList(r.recommendations) /\ Len(r.recommendations) > 0
     /\ t.nlpScore \in Nat
     /\ t.sentimentAnalysis \in SentimentLabels
     /\ IsList(t.linguisticPatterns)
     /\ IsList(t.behavioralIndicators)

\* C14: analyzeText is total.  Every call, whatever its text (the empty
\* string and texts of spaces or punctuation only included), completes with
\* riskScore, riskLevel, confidence, detectedPatterns, recommendations and
\* every field of technicalDetails defined: a waiting call has such a value
\* to resolve to for every random draw, a completed call has resolved to
\* one; and the word count the linguistic checks divide by is never 0.
C14_Total ==
  \A i \in 1..Len(calls) :
    LET text == calls[i].text
    IN /\ WordCount(text) > 0
       /\ calls[i].state = "waiting" =>
            \A random \in RandomValues :
              FullyDefined(AnalyzeTextReturn(text, LocalsOf[text], random))
       /\ calls[i].state = "done" => FullyDefined(calls[i].result)

\* The call of a text of punctuation only has completed: word count 1,
\* all three linguistic checks fire, no rule matches.
C14_Witness ==
  \E i \in Done :
    /\ calls[i].text = OnlyPunctuationText
    /\ calls[i].result.riskScore = 8
    /\ calls[i].result.riskLevel = "safe"
    /\ calls[i].result.technicalDetails.nlpScore = 40

\* ---- C15
\* C15: the confidence of a completed call is a value c with 85 <= c < 100,
\* and it is chosen independently of the text and of the matches: whatever
\* the random draw, a call resolves to the confidence a call of the empty
\* text, which matches nothing, resolves to with the same draw.
C15_ConfidenceRange ==
  \A i \in 1..Len(calls) :
    LET text == calls[i].text
    IN /\ calls[i].state = "done" =>
            /\ 85 * One <= calls[i].result.confidence
            /\ calls[i].result.confidence < 100 * One
       /\ \A random \in RandomValues :
            AnalyzeTextReturn(text, LocalsOf[text], random).confidence
              = AnalyzeTextReturn("", LocalsOf[""], random).confidence

\* A completed call with two labels and the least confidence, and so not a
\* confidence that grew with the evidence.
C15_Witness ==
  \E i \in Done :
    /\ Len(calls[i].result.detectedPatterns) >= 2
    /\ calls[i].result.confidence = 85 * One

TenRules ==
  << <<"urgency", 300>>, <<"verification_scam", 400>>, <<"malicious_link", 500>>,
     <<"pressure_tactics", 300>>, <<"lottery_scam", 400>>, <<"investment_fraud", 400>>,
     <<"romance_scam", 200>>, <<"crypto_scam", 300>>,
     <<"government_impersonation", 400>>, <<"tech_support_scam", 400>> >>

\* The rule table a completed call evaluated is the ten rules, each as it
\* was built (its pattern back at lastIndex 0).
SameTenRules(i) ==
  LET table == calls[i].locals.suspiciousPatterns
  IN /\ DOMAIN table = 1..10
     /\ \A r \in 1..10 :
          /\ <<table[r].type, table[r].weight>> = TenRules[r]
          /\ table[r].lastIndex = 0

\* C17: analyzeText leaves the service state unchanged.  A step that makes
\* or completes a call changes neither the singleton instance nor the number
\* of instances constructed, and every completed call has evaluated its text
\* against the same ten rules and left them as they were.
C17_ServiceStateUnchanged ==
  /\ [](\A i \in Done : SameTenRules(i))
  /\ [][calls' # calls => (instance' = instance /\ constructed' = constructed)]_vars

\* Two completed calls of different texts, one that matched rules and one
\* that matched none, on the one instance.
C17_Witness ==
  /\ instance = 1
  /\ \E i, j \in Done :
       /\ calls[i].result.detectedPatterns # <<>>
       /\ calls[j].result.detectedPatterns = <<>>

\* ============================================================ SecurityAdvisor
\* How many messages the user submits and how many sessions New Chat starts.
MaxSubmits == 2
MaxSessions == 2

\* What the user types: nothing, blanks, a message.
ChatInputs == {"", " ", "hi"}

\* String.prototype.trim
RECURSIVE TrimStart(_)
TrimStart(s) ==
  IF s # "" /\ IsWhiteSpace(CharAt(s, 1)) THEN TrimStart(SubSeq(s, 2, Len(s))) ELSE s

RECURSIVE TrimEnd(_)
TrimEnd(s) ==
  IF s # "" /\ IsWhiteSpace(CharAt(s, Len(s))) THEN TrimEnd(SubSeq(s, 1, Len(s) - 1)) ELSE s

Trim(s) == TrimEnd(TrimStart(s))

\* The id the backend gives its next message: one more than it holds.
RECURSIVE CountMessages(_, _)
CountMessages(sm, n) == IF n = 0 THEN 0 ELSE Len(sm[n]) + CountMessages(sm, n - 1)

NextMessageId == CountMessages(serverMessages, Len(serverMessages)) + 1

\* apiMessages.map(...): the messages of the API in the local format.
ConvertedMessages(apiMessages) ==
  [k \in 1..Len(apiMessages) |->
     [id |-> apiMessages[k].id, isUser |-> apiMessages[k].message_type = "user"]]

\* data of useChatMessages(currentSessionId)
ApiMessages ==
  IF currentSessionId = NoSession THEN NoData ELSE messagesCache[currentSessionId]

\* Mutant of RemoveUserMessage: the last message is dropped, whichever it is.
RemoveLastMessage(prev, id) == SubSeq(prev, 1, Len(prev) - 1)

\* prev.filter(msg => msg.id !== userMessage.id)
RemoveUserMessage(prev, id) == SelectSeq(prev, LAMBDA msg : msg.id # id)

\* Mutant of CanSubmit: the input is not trimmed, blanks count as a message.
CanSubmitUntrimmed(input, sessionId, mutation) ==
  /\ input # ""
  /\ sessionId # NoSession
  /\ mutation.status # "pending"

\* `!chatInput.trim() || !currentSessionId || sendMessageMutation.isPending`
\* is false.
CanSubmit(input, sessionId, mutation) ==
  /\ Trim(input) # ""
  /\ sessionId # NoSession
  /\ mutation.status # "pending"

\* Mutant of MessagesAfterCreate: handleNewSession keeps the displayed list.
MessagesAfterCreateKept(caller, prev) == prev

\* The displayed list after a session was created: handleNewSession runs
\* setChatMessages([]), the mount effect leaves the list as it is.
MessagesAfterCreate(caller, prev) ==
  IF caller = "handleNewSession" THEN <<>> ELSE prev

\* The submits whose send is in flight learn that the displayed list was
\* replaced under them (a note for the claims, not a field of the code).
NoteReplaced(subs, replaced) ==
  [k \in 1..Len(subs) |->
     IF replaced /\ subs[k].phase = "sending"
       THEN [subs[k] EXCEPT !.replaced = TRUE] ELSE subs[k]]

\* onChange of the chat input, which is disabled while a send is pending or
\* there is no session.
TypeChatInput(value) ==
  /\ sendMessageMutation.status # "pending"
  /\ currentSessionId # NoSession
  /\ value # chatInput
  /\ chatInput' = value
  /\ UNCHANGED <<aiVars, authVars, threatVars, scamVars,
                 chatMessages, currentSessionId, isLoadingChat,
                 createSessionMutation, sendMessageMutation, submits,
                 messagesCache, messagesFetching, serverMessages, now,
                 lastFetchAt, requests>>

\* handleChatSubmit up to `await sendMessageMutation.mutateAsync(...)`.  The
\* clock has moved on since the previous submit: the user typed in between.
HandleChatSubmit ==
  /\ CanSubmit(chatInput, currentSessionId, sendMessageMutation)
  /\ Len(submits) < MaxSubmits
  /\ chatMessages' = Append(chatMessages, [id |-> now, isUser |-> TRUE])
  /\ chatInput' = ""
  /\ isLoadingChat' = TRUE
  /\ sendMessageMutation' = [status |-> "pending"]
  /\ submits' = Append(submits, [id |-> now, sessionId |-> currentSessionId,
                                 phase |-> "sending", awaits |-> NoSession,
                                 before |-> chatMessages, replaced |-> FALSE])
  /\ now' = now + 1
  /\ requests' = requests \cup {ChatRequest(SendChatMessage)}
  /\ UNCHANGED <<aiVars, authVars, threatVars, scamVars,
                 currentSessionId, createSessionMutation,
                 messagesCache, messagesFetching, serverMessages, lastFetchAt>>

\* The submit whose send is in flight (there is at most one).
Sending == CHOOSE k \in 1..Len(submits) : submits[k].phase = "sending"

\* The backend answers the send of handleChatSubmit.
\* ok: it stores the message and the reply; useSendChatMessage's onSuccess
\*   invalidates the chat-messages query of that session, which refetches it
\*   when it is the one on display; the handler goes on to
\*   `await refetchMessages()`, a fetch of the session on display.
\* not ok: mutateAsync rejects; the catch block removes the user message, the
\*   finally block clears isLoadingChat.
SendMessageResponse(ok) ==
  /\ sendMessageMutation.status = "pending"
  /\ LET k == Sending
         session == submits[k].sessionId
         id == NextMessageId
     IN IF ok
          THEN /\ sendMessageMutation' = [status |-> "success"]
               /\ serverMessages' =
                    [serverMessages EXCEPT ![session] =
                       @ \o <<[id |-> id, message_type |-> "user"],
                              [id |-> id + 1, message_type |-> "bot"]>>]
               /\ messagesFetching' = messagesFetching \cup {currentSessionId}
               /\ lastFetchAt' = now
               /\ requests' = requests \cup {ChatRequest(GetChatMessages)}
               /\ submits' = [submits EXCEPT ![k].phase = "refetching",
                                             ![k].awaits = currentSessionId]
               /\ UNCHANGED <<chatMessages, isLoadingChat>>
          ELSE /\ sendMessageMutation' = [status |-> "error"]
               /\ chatMessages' = RemoveUserMessage(chatMessages, submits[k].id)
               /\ isLoadingChat' = FALSE
               /\ submits' = [submits EXCEPT ![k].phase = "failed"]
               /\ UNCHANGED <<serverMessages, messagesFetching, lastFetchAt, requests>>
  /\ UNCHANGED <<aiVars, authVars, threatVars, scamVars,
                 chatInput, currentSessionId, createSessionMutation,
                 messagesCache, now>>

\* A fetch of the chat-messages query of a session ends.
\* ok: its data is what the backend holds; when that is new data of the
\*   session on display, the effect on [apiMessages] replaces chatMessages.
\* Either way `await refetchMessages()` returns in the handlers that wait for
\* this fetch, and their finally block clears isLoadingChat.
ChatMessagesFetched(session, ok) ==
  /\ session \in messagesFetching
  /\ messagesFetching' = messagesFetching \ {session}
  /\ LET data == IF ok THEN Data(serverMessages[session]) ELSE messagesCache[session]
         shown == session = currentSessionId /\ data # messagesCache[session]
         waiting == {k \in 1..Len(submits) :
                       submits[k].phase = "refetching" /\ submits[k].awaits = session}
         replaced == shown /\ ConvertedMessages(data.value) # chatMessages
     IN /\ messagesCache' = [messagesCache EXCEPT ![session] = data]
        /\ chatMessages' = IF shown THEN ConvertedMessages(data.value) ELSE chatMessages
        /\ isLoadingChat' = IF waiting = {} THEN isLoadingChat ELSE FALSE
        /\ submits' = [k \in 1..Len(submits) |->
                         IF k \in waiting
                           THEN [submits[k] EXCEPT !.phase = "succeeded"]
                           ELSE NoteReplaced(submits, replaced)[k]]
  /\ UNCHANGED <<aiVars, authVars, threatVars, scamVars,
                 chatInput, currentSessionId, createSessionMutation,
                 sendMessageMutation, serverMessages, now, lastFetchAt, requests>>

\* The effect on [currentSessionId, createSessionMutation] when its condition
\* holds.  It runs after every render (the mutation result is a new object
\* in each), so it runs in every state in which its condition holds.
CreateSessionEffect ==
  /\ currentSessionId = NoSession
  /\ createSessionMutation.status # "pending"
  /\ createSessionMutation' = [status |-> "pending", caller |-> "effect"]
  /\ requests' = requests \cup {ChatRequest(CreateChatSession)}
  /\ UNCHANGED <<aiVars, authVars, threatVars, scamVars,
                 chatMessages, chatInput, currentSessionId, isLoadingChat,
                 sendMessageMutation, submits, messagesCache, messagesFetching,
                 serverMessages, now, lastFetchAt>>

\* handleNewSession up to `await createSessionMutation.mutateAsync(...)`; its
\* button is disabled while a creation is pending.
HandleNewSession ==
  /\ createSessionMutation.status # "pending"
  /\ Len(serverMessages) < MaxSessions
  /\ createSessionMutation' = [status |-> "pending", caller |-> "handleNewSession"]
  /\ requests' = requests \cup {ChatRequest(CreateChatSession)}
  /\ UNCHANGED <<aiVars, authVars, threatVars, scamVars,
                 chatMessages, chatInput, currentSessionId, isLoadingChat,
                 sendMessageMutation, submits, messagesCache, messagesFetching,
                 serverMessages, now, lastFetchAt>>

\* The backend answers a create-session request.
\* ok: the caller sets currentSessionId (the chat-messages query of the new
\*   session starts its first fetch); handleNewSession also empties
\*   chatMessages.
\* not ok: both callers only show a toast.
CreateSessionResponse(ok) ==
  /\ createSessionMutation.status = "pending"
  /\ IF ok
       THEN LET session == Len(serverMessages) + 1
                list == MessagesAfterCreate(createSessionMutation.caller, chatMessages)
            IN /\ createSessionMutation' = [createSessionMutation EXCEPT !.status = "success"]
               /\ serverMessages' = Append(serverMessages, <<>>)
               /\ messagesCache' = Append(messagesCache, NoData)
               /\ messagesFetching' = messagesFetching \cup {session}
               /\ lastFetchAt' = now
               /\ requests' = requests \cup {ChatRequest(GetChatMessages)}
               /\ currentSessionId' = session
               /\ chatMessages' = list
               /\ submits' = NoteReplaced(submits, list # chatMessages)
       ELSE /\ createSessionMutation' = [createSessionMutation EXCEPT !.status = "error"]
            /\ UNCHANGED <<serverMessages, messagesCache, messagesFetching,
                           currentSessionId, chatMessages, submits,
                           lastFetchAt, requests>>
  /\ UNCHANGED <<aiVars, authVars, threatVars, scamVars,
                 chatInput, isLoadingChat, sendMessageMutation, now>>

NextChat ==
  \/ \E value \in ChatInputs : TypeChatInput(value)
  \/ HandleChatSubmit
  \/ \E ok \in BOOLEAN : SendMessageResponse(ok)
  \/ \E session \in messagesFetching, ok \in BOOLEAN : ChatMessagesFetched(session, ok)
  \/ CreateSessionEffect
  \/ HandleNewSession
  \/ \E ok \in BOOLEAN : CreateSessionResponse(ok)

SpecChat == Init /\ [][NextChat]_vars

\* ---- C18
\* The ids of the messages on display.
ShownIds(list) == {list[k].id : k \in 1..Len(list)}

\* Submit k starts in this step.
Submitted(k) == k = Len(submits) + 1 /\ Len(submits') = k

\* The send of submit k fails in this step.
SendFails(k) ==
  k <= Len(submits) /\ submits[k].phase = "sending" /\ submits'[k].phase = "failed"

\* Submit k finishes in this step, with a failed or a successful send.
Finishes(k) ==
  /\ k <= Len(submits)
  /\ submits[k].phase \in {"sending", "refetching"}
  /\ submits'[k].phase \in {"failed", "succeeded"}

\* C18 as stated: the user's message is appended to the displayed list
\* before the send completes; when the send fails the list is as it was
\* before the submit; isLoadingChat is false once the submit has finished.
C18_Original ==
  [][\A k \in 1..Len(submits') :
       /\ Submitted(k) =>
            /\ chatMessages' = Append(chatMessages, [id |-> submits'[k].id, isUser |-> TRUE])
            /\ sendMessageMutation'.status = "pending"
       /\ SendFails(k) => chatMessages' = submits[k].before
       /\ Finishes(k) => isLoadingChat' = FALSE]_vars

\* C18, amended: the user's message is appended to the displayed list in the
\* step that starts the send; when the send fails that message, and nothing
\* else, is removed from the list, which is then the list before the submit
\* unless a fetched message list or a new session replaced the displayed list
\* while the send was pending; isLoadingChat is false once the submit has
\* finished, with a failed or a successful send.
C18_OptimisticAppendAndRollback ==
  [][\A k \in 1..Len(submits') :
       /\ Submitted(k) =>
            /\ chatMessages' = Append(chatMessages, [id |-> submits'[k].id, isUser |-> TRUE])
            /\ sendMessageMutation'.status = "pending"
       /\ SendFails(k) =>
            /\ submits[k].id \notin ShownIds(chatMessages')
            /\ \E p \in 0..Len(chatMessages) :
                 /\ chatMessages' = SubSeq(chatMessages, 1, p)
                                       \o SubSeq(chatMessages, p + 2, Len(chatMessages))
                 /\ (p < Len(chatMessages) => chatMessages[p + 1].id = submits[k].id)
            /\ ~submits[k].replaced => chatMessages' = submits[k].before
       /\ Finishes(k) => isLoadingChat' = FALSE]_vars

\* A send has failed and the list is back to what it was before the submit,
\* the messages of an earlier exchange.
C18_Witness ==
  \E k \in 1..Len(submits) :
    /\ submits[k].phase = "failed"
    /\ ~submits[k].replaced
    /\ submits[k].before # <<>>
    /\ chatMessages = submits[k].before
    /\ ~isLoadingChat

\* ---- C19
\* SpecChat with what React and the network guarantee: an effect whose
\* condition holds runs, and a request that was sent is answered (by a
\* success or by a failure).  Nothing obliges the user to act.
SpecChatFair ==
  /\ SpecChat
  /\ WF_vars(CreateSessionEffect)
  /\ WF_vars(\E ok \in BOOLEAN : CreateSessionResponse(ok))
  /\ WF_vars(\E ok \in BOOLEAN : SendMessageResponse(ok))
  /\ WF_vars(\E session \in messagesFetching, ok \in BOOLEAN : ChatMessagesFetched(session, ok))

\* The user does something with the chat.
UserActs ==
  \/ \E value \in ChatInputs : TypeChatInput(value)
  \/ HandleChatSubmit
  \/ HandleNewSession

\* C19: when session creation fails, SecurityAdvisor does not loop without
\* bound.  Unless the user keeps acting, the component on its own sends only
\* finitely many create-session requests: from some point on the
\* session-creating effect sends no further one.
C19_BoundedCreateRequests ==
  ([]<><<UserActs>>_vars) \/ (<>[][~CreateSessionEffect]_vars)

\* =============================================================== AuthProvider
\* How many times the user logs in.
MaxLogins == 2

\* The token localStorage holds from an earlier visit, when it holds one.
EarlierToken == 1

\* What GET /auth/me answers for a token the backend accepts.
UserOf(t) == "demo"

\* isAuthenticated: !!token && !!user
IsAuthenticated == token # NoToken /\ user # NoUser

\* The query as a fetch that starts leaves it: without data it goes back to
\* pending and drops its error, with data it keeps both until the answer.
FetchStarted(query) == IF query.data = NoUser THEN NoResult ELSE query

\* The effect on [currentUser, error].
AuthEffect(query) ==
  IF query.data # NoUser
    THEN user' = query.data /\ UNCHANGED <<storedToken, token>>
    ELSE IF query.error
      THEN storedToken' = NoToken /\ token' = NoToken /\ user' = NoUser
      ELSE UNCHANGED <<storedToken, token, user>>

\* The backend answers GET /auth/me: with the user when it accepts the token
\* of the Authorization header, with an error status otherwise (there is no
\* retry).  A failed refetch leaves the data of the query as it was.  The
\* effect runs when the data or the error changed, and an error is a new
\* object each time.
CurrentUserFetched ==
  /\ currentUserFetching.active
  /\ LET ok == currentUserFetching.token \in validTokens
         query == IF ok
                    THEN [status |-> "success",
                          data |-> UserOf(currentUserFetching.token), error |-> FALSE]
                    ELSE [status |-> "error", data |-> currentUserQuery.data, error |-> TRUE]
         changed == query.error \/ query # currentUserQuery
     IN /\ currentUserQuery' = query
        /\ IF changed THEN AuthEffect(query) ELSE UNCHANGED <<storedToken, token, user>>
  /\ currentUserFetching' = NoFetch
  /\ currentUserEnabled' = (storedToken' # NoToken)
  /\ UNCHANGED <<aiVars, chatVars, threatVars, scamVars, loginMutation, validTokens, issued>>

\* The window regains the focus: an enabled query that is not being fetched
\* is fetched again (useCurrentUser does not switch refetchOnWindowFocus off);
\* getCurrentUser reads the token from localStorage.
WindowFocus ==
  /\ currentUserEnabled
  /\ ~currentUserFetching.active
  /\ currentUserFetching' = [active |-> TRUE, token |-> storedToken]
  /\ currentUserQuery' = FetchStarted(currentUserQuery)
  /\ UNCHANGED <<aiVars, chatVars, threatVars, scamVars, storedToken, token, user, currentUserEnabled,
                 loginMutation, validTokens, issued>>

\* LoginDemo.handleLogin up to `await loginMutation.mutateAsync(...)`; the
\* form is on display while the user is not authenticated.
HandleLogin ==
  /\ ~IsAuthenticated
  /\ loginMutation.status # "pending"
  /\ issued < MaxLogins + 1
  /\ loginMutation' = [status |-> "pending"]
  /\ UNCHANGED <<aiVars, chatVars, threatVars, scamVars, storedToken, token, user, currentUserQuery,
                 currentUserFetching, currentUserEnabled, validTokens, issued>>

\* The backend answers the login.
\* ok: it issues a token; useLogin's onSuccess stores it and invalidates the
\*   queries under ['auth']; handleLogin calls login(token), which sets the
\*   token state and stores the token.  The current-user query, refetched by
\*   the invalidation or enabled by the next render, is fetched with it.
\* not ok: handleLogin shows a toast.
LoginResponse(ok) ==
  /\ loginMutation.status = "pending"
  /\ IF ok
       THEN /\ issued' = issued + 1
            /\ validTokens' = validTokens \cup {issued + 1}
            /\ loginMutation' = [status |-> "success"]
            /\ storedToken' = issued + 1
            /\ token' = issued + 1
            /\ currentUserFetching' = [active |-> TRUE, token |-> issued + 1]
            /\ currentUserQuery' = FetchStarted(currentUserQuery)
            /\ currentUserEnabled' = TRUE
            /\ UNCHANGED user
       ELSE /\ loginMutation' = [status |-> "error"]
            /\ UNCHANGED <<storedToken, token, user, currentUserQuery,
                           currentUserFetching, currentUserEnabled, validTokens, issued>>
  /\ UNCHANGED <<aiVars, chatVars, threatVars, scamVars>>

\* logout()
Logout ==
  /\ IsAuthenticated
  /\ token' = NoToken
  /\ user' = NoUser
  /\ storedToken' = NoToken
  /\ currentUserEnabled' = FALSE
  /\ UNCHANGED <<aiVars, chatVars, threatVars, scamVars, currentUserQuery, currentUserFetching,
                 loginMutation, validTokens, issued>>

\* A token expires: the backend no longer accepts it.
TokenExpires(t) ==
  /\ t \in validTokens
  /\ validTokens' = validTokens \ {t}
  /\ UNCHANGED <<aiVars, chatVars, threatVars, scamVars, storedToken, token, user, currentUserQuery,
                 currentUserFetching, currentUserEnabled, loginMutation, issued>>

\* The page is loaded with or without a token stored by an earlier visit, a
\* token the backend still accepts or not.
InitVisit ==
  /\ InitService
  /\ InitChat
  /\ \/ InitAuthWith(NoToken, {})
     \/ InitAuthWith(EarlierToken, {EarlierToken})
     \/ InitAuthWith(EarlierToken, {})
  /\ InitRequests
  /\ InitThreat
  /\ InitScam

NextAuth ==
  \/ CurrentUserFetched
  \/ WindowFocus
  \/ HandleLogin
  \/ \E ok \in BOOLEAN : LoginResponse(ok)
  \/ Logout
  \/ \E t \in validTokens : TokenExpires(t)

SpecAuth == InitVisit /\ [][NextAuth]_vars

\* ---- C20
\* In this step the current-user lookup reports the stored token invalid:
\* the request that carried it is answered with an error.
LookupReportsInvalid ==
  /\ currentUserFetching.active
  /\ storedToken # NoToken
  /\ currentUserFetching.token = storedToken
  /\ ~currentUserFetching'.active
  /\ currentUserQuery'.status = "error"

\* C20: when the current-user lookup reports the stored token invalid,
\* AuthProvider logs the user out: auth_token is removed from localStorage,
\* token and user become null and isAuthenticated is false; and the token
\* state, once null, is set again only by a new login, so that
\* isAuthenticated stays false until then.
C20_LogoutOnInvalidToken ==
  [][/\ LookupReportsInvalid =>
          /\ storedToken' = NoToken
          /\ token' = NoToken
          /\ user' = NoUser
          /\ ~IsAuthenticated'
     /\ (token = NoToken /\ token' # NoToken) => issued' = issued + 1]_vars

\* ---------------------------------------------- one session, with the clock
MaxSeconds == 7

\* Mutant of ChatMessagesRefetchInterval: refetchInterval: 5000.
ChatMessagesRefetchIntervalFive == 5 * 1000

\* The refetchInterval option of useChatMessages in milliseconds, 0 for the
\* default (false): the hook passes queryKey, queryFn, enabled and
\* refetchOnWindowFocus: false, and no refetchInterval.
ChatMessagesRefetchInterval == 0

\* One second passes with no event of the page. A query with a
\* refetchInterval that is enabled fetches again once the interval has passed
\* since its latest fetch started; one without sets no timer.
Tick ==
  /\ now < PageLoadTime + MaxSeconds * 1000
  /\ now' = now + 1000
  /\ IF /\ ChatMessagesRefetchInterval # 0
        /\ currentSessionId # NoSession
        /\ now' - lastFetchAt >= ChatMessagesRefetchInterval
       THEN /\ messagesFetching' = messagesFetching \cup {currentSessionId}
            /\ lastFetchAt' = now'
            /\ requests' = requests \cup {ChatRequest(GetChatMessages)}
       ELSE UNCHANGED <<messagesFetching, lastFetchAt, requests>>
  /\ UNCHANGED <<aiVars, authVars, threatVars, scamVars,
                 chatMessages, chatInput, currentSessionId, isLoadingChat,
                 createSessionMutation, sendMessageMutation, submits,
                 messagesCache, serverMessages>>

\* SecurityAdvisor left to itself: the user does nothing, time passes.
NextPoll ==
  \/ CreateSessionEffect
  \/ \E ok \in BOOLEAN : CreateSessionResponse(ok)
  \/ \E session \in messagesFetching, ok \in BOOLEAN : ChatMessagesFetched(session, ok)
  \/ Tick

SpecPoll == Init /\ [][NextPoll]_vars

\* SecurityAdvisor under AuthProvider, for a visitor with or without a stored
\* token, who stays in the session the mount effect creates.
NextSession ==
  \/ CurrentUserFetched
  \/ CreateSessionEffect
  \/ \E ok \in BOOLEAN : CreateSessionResponse(ok)
  \/ \E value \in ChatInputs : TypeChatInput(value)
  \/ HandleChatSubmit
  \/ \E ok \in BOOLEAN : SendMessageResponse(ok)
  \/ \E session \in messagesFetching, ok \in BOOLEAN : ChatMessagesFetched(session, ok)

SpecSession == InitVisit /\ [][NextSession]_vars

\* ---- C21
\* The refresh period the documentation of the chatbot integration names.
RefreshPeriod == 5000

ThreatCount == 15
IntelCount == 8

\* 86400000: the milliseconds of a day.
DayMs == 86400000

threatTypes ==
  <<"Romance Scam", "Investment Fraud", "Tech Support Scam", "Cryptocurrency Scam",
    "Identity Theft", "Phishing Campaign", "Ransomware", "Social Engineering",
    "Online Shopping Fraud", "Bank Impersonation", "Government Impersonation",
    "Utility Scam", "Charity Fraud", "Lottery Scam", "Employment Scam">>

locations == <<"Downtown", "Suburb North", "City Center", "East District", "West Side">>

severities == <<"critical", "high", "medium", "low">>

\* What the location filter of the component passes: "" for all locations.
LocationFilters == {""} \cup Range(locations)

\* The runs of Math.random() that the model draws for one generation.  Run
\* `seed` gives element i an age of (seed * i) % days whole days: all ages
\* equal for seed 0, ages that grow, shrink and repeat for the others.
Seeds == 0..6

AgeOf(seed, i, days) == ((seed * i) % days) * DayMs

\* generateMockThreats(): fifteen alerts, numbered from 1, each field drawn
\* at random; the fields the methods read are kept.
generateMockThreats(seed) ==
  [i \in 1..ThreatCount |->
     [id |-> i,
      type |-> threatTypes[((seed + 2 * i) % Len(threatTypes)) + 1],
      severity |-> severities[((seed * i + i) % Len(severities)) + 1],
      location |-> locations[((seed + i) % Len(locations)) + 1],
      timestamp |-> now - AgeOf(seed, i, 7)]]

\* generateDarkWebIntel(): eight entries, numbered from 1.
generateDarkWebIntel(seed) ==
  [i \in 1..IntelCount |->
     [id |-> i,
      riskLevel |-> ((seed * 37 + i * 11) % 100) + 1,
      lastSeen |-> now - AgeOf(seed, i, 3)]]

\* x put into a list sorted from the greatest key down, behind its equals.
RECURSIVE InsertSorted(_, _, _)
InsertSorted(sorted, x, key) ==
  IF sorted = <<>> THEN <<x>>
  ELSE IF Head(sorted)[key] < x[key] THEN <<x>> \o sorted
  ELSE <<Head(sorted)>> \o InsertSorted(Tail(sorted), x, key)

\* array.sort((a, b) => b[key].getTime() - a[key].getTime()): the elements
\* from the greatest key down; Array.prototype.sort is stable, elements with
\* equal keys keep their order.
RECURSIVE SortDescending(_, _, _)
SortDescending(array, n, key) ==
  IF n = 0 THEN <<>>
  ELSE InsertSorted(SortDescending(array, n - 1, key), array[n], key)

\* Mutant of NeedsGenerating: the array is generated on every call.
NeedsGeneratingAlways(array) == TRUE

\* `this.threats.length === 0`, `this.darkWebIntel.length === 0`
NeedsGenerating(array) == Len(array) = 0

\* ThreatIntelligenceService.getInstance()
ThreatGetInstance ==
  /\ Len(threatHandles) < MaxGets
  /\ IF IsUnset(threatInstance)
       THEN /\ threatConstructed' = threatConstructed + 1
            /\ threatInstance' = threatConstructed + 1
       ELSE UNCHANGED <<threatInstance, threatConstructed>>
  /\ threatHandles' = Append(threatHandles, threatInstance')
  /\ UNCHANGED <<threats, darkWebIntel, generated, returned,
                 aiVars, chatVars, authVars, scamVars>>

\* The body of getRecentThreats(): this.threats afterwards, which is also the
\* array it returns (sort works in place and returns its receiver).
RecentThreats(seed) ==
  LET filled == IF NeedsGenerating(threats) THEN generateMockThreats(seed) ELSE threats
  IN SortDescending(filled, Len(filled), "timestamp")

\* How many calls of its methods the model follows.
MaxServiceCalls == 3

\* A method is called on the instance getInstance has handed out.
CanCall == threatInstance # NoInstance /\ returned.nth < MaxServiceCalls

Returned(method, value) ==
  [method |-> method, value |-> value, nth |-> returned.nth + 1]

\* The seeds a call can draw: it draws only when it generates.
SeedsFor(array) == IF NeedsGenerating(array) THEN Seeds ELSE {0}

CountGenerated(array, field) ==
  IF NeedsGenerating(array) THEN [generated EXCEPT ![field] = @ + 1] ELSE generated

\* getRecentThreats()
GetRecentThreats ==
  /\ CanCall
  /\ \E seed \in SeedsFor(threats) :
       /\ threats' = RecentThreats(seed)
       /\ returned' = Returned("getRecentThreats", threats')
  /\ generated' = CountGenerated(threats, "threats")
  /\ UNCHANGED <<threatInstance, threatConstructed, threatHandles, darkWebIntel,
                 aiVars, chatVars, authVars, scamVars>>

\* getDarkWebIntelligence()
GetDarkWebIntelligence ==
  /\ CanCall
  /\ \E seed \in SeedsFor(darkWebIntel) :
       LET filled == IF NeedsGenerating(darkWebIntel)
                       THEN generateDarkWebIntel(seed) ELSE darkWebIntel
       IN /\ darkWebIntel' = SortDescending(filled, Len(filled), "lastSeen")
          /\ returned' = Returned("getDarkWebIntelligence", darkWebIntel')
  /\ generated' = CountGenerated(darkWebIntel, "darkWebIntel")
  /\ UNCHANGED <<threatInstance, threatConstructed, threatHandles, threats,
                 aiVars, chatVars, authVars, scamVars>>

\* getThreatsByLocation(location): getRecentThreats(), then a filter (a new
\* array) when a location is given.
GetThreatsByLocation(location) ==
  /\ CanCall
  /\ \E seed \in SeedsFor(threats) :
       /\ threats' = RecentThreats(seed)
       /\ returned' =
            Returned("getThreatsByLocation",
                     IF location # ""
                       THEN SelectSeq(threats', LAMBDA t : t.location = location)
                       ELSE threats')
  /\ generated' = CountGenerated(threats, "threats")
  /\ UNCHANGED <<threatInstance, threatConstructed, threatHandles, darkWebIntel,
                 aiVars, chatVars, authVars, scamVars>>

\* The object getThreatStatistics() builds from the alerts, as a list of one.
ThreatStatistics(alerts) ==
  LET present(field) == {alerts[k][field] : k \in 1..Len(alerts)}
      count(field) ==
        [v \in present(field) |->
           Cardinality({k \in 1..Len(alerts) : alerts[k][field] = v})]
  IN <<[total |-> Len(alerts),
        severityCounts |-> count("severity"),
        typeCounts |-> count("type"),
        last24Hours |->
          Cardinality({k \in 1..Len(alerts) : now - alerts[k].timestamp < DayMs})]>>

\* getThreatStatistics(): getRecentThreats(), then the counts.
GetThreatStatistics ==
  /\ CanCall
  /\ \E seed \in SeedsFor(threats) :
       /\ threats' = RecentThreats(seed)
       /\ returned' = Returned("getThreatStatistics", ThreatStatistics(threats'))
  /\ generated' = CountGenerated(threats, "threats")
  /\ UNCHANGED <<threatInstance, threatConstructed, threatHandles, darkWebIntel,
                 aiVars, chatVars, authVars, scamVars>>

\* The two services and their callers: EnhancedScamDetection gets both
\* instances in every render, loads the threats and the dark-web entries on
\* mount and every 30 seconds, filters by location and shows the statistics.
NextServices ==
  \/ getInstance
  \/ ThreatGetInstance
  \/ GetRecentThreats
  \/ GetDarkWebIntelligence
  \/ \E location \in LocationFilters : GetThreatsByLocation(location)
  \/ GetThreatStatistics

SpecServices == Init /\ [][NextServices]_vars

\* ---- C23
\* C23: for every completed call, riskLevel is "safe" exactly when no rule of
\* the table matched the text, which is exactly when detectedPatterns is
\* empty; without a match riskScore is at most 8, with a match it is at least
\* 20; and recommendations is the one generic-safety string exactly when
\* detectedPatterns is empty.
C23_SafeIffNoMatch ==
  \A i \in Done :
    LET r == calls[i].result
        noMatch == Matched(calls[i].text) = {}
    IN /\ noMatch <=> (r.detectedPatterns = <<>>)
       /\ (r.riskLevel = "safe") <=> noMatch
       /\ noMatch => r.riskScore <= 8
       /\ ~noMatch => r.riskScore >= 20
       /\ (r.recommendations =
             <<"Message appears safe, but always verify sender identity">>)
            <=> (r.detectedPatterns = <<>>)

\* The edge of the claim: fifty-one long words with one match of the lightest
\* rule and no linguistic signal, so that the score is exactly 20 and the call
\* is not safe.
C23_Witness ==
  \E i \in Done :
    /\ calls[i].text = LongPlainText \o "love"
    /\ calls[i].locals.nlpScore = 0
    /\ Len(calls[i].result.detectedPatterns) = 1
    /\ calls[i].result.riskScore = 20
    /\ calls[i].result.riskLevel = "low"
    /\ Len(calls[i].result.recommendations) > 1

\* ---- C24
RomanceRule == CHOOSE r \in Rules : suspiciousPatterns[r].type = "romance_scam"

HasRomanceTips(recs) ==
  \E k \in 1..Len(recs) :
    recs[k] \in {"Never send money to someone you haven't met in person",
                 "Be suspicious of quick declarations of love",
                 "Verify photos using reverse image search"}

\* C24: the recommendations of a completed call hold a romance-scam tip only
\* when romance_scam is the one category that matched; when another rule
\* matched as well, that rule is heavier, the dominant category is not romance
\* scam, and no romance tip is returned.
C24_RomanceTipsOnlyAlone ==
  \A i \in Done :
    LET r == calls[i].result
        matched == Matched(calls[i].text)
    IN /\ HasRomanceTips(r.recommendations) => matched = {RomanceRule}
       /\ (RomanceRule \in matched /\ matched # {RomanceRule}) =>
            /\ \E o \in matched :
                 suspiciousPatterns[o].weight > suspiciousPatterns[RomanceRule].weight
            /\ r.threatType # "romance scam"
            /\ ~HasRomanceTips(r.recommendations)

\* A completed call on which romance_scam alone matched and whose
\* recommendations end with the three romance tips.
C24_Witness ==
  \E i \in Done :
    /\ Matched(calls[i].text) = {RomanceRule}
    /\ calls[i].result.threatType = "romance scam"
    /\ Len(calls[i].result.recommendations) = 6
    /\ HasRomanceTips(calls[i].result.recommendations)

\* ---- C25
\* The submits whose send request is in flight.
InFlight == {k \in 1..Len(submits) : submits[k].phase = "sending"}

\* C25: handleChatSubmit sends a message only in a step that starts with a
\* non-empty trimmed input, a current session id and no pending send; so at
\* most one send request is in flight in every state, and every send request
\* goes to a session the backend has created.
C25_SendGuards ==
  /\ [](/\ Cardinality(InFlight) <= 1
        /\ \A k \in 1..Len(submits) : submits[k].sessionId \in 1..Len(serverMessages)
        /\ (\E r \in requests : r.endpoint = SendChatMessage) => serverMessages # <<>>)
  /\ [][Len(submits') > Len(submits) =>
          /\ Trim(chatInput) # ""
          /\ currentSessionId # NoSession
          /\ sendMessageMutation.status # "pending"
          /\ InFlight = {}
          /\ submits'[Len(submits')].sessionId = currentSessionId]_vars

\* A second message is being sent while the handler of the first, whose send
\* was answered, still waits for the messages to be fetched: the handlers
\* overlap, the send requests do not.
C25_Witness ==
  /\ Len(submits) = 2
  /\ submits[1].phase = "refetching"
  /\ submits[2].phase = "sending"
  /\ InFlight = {2}
  /\ sendMessageMutation.status = "pending"

\* ---- C29
\* handleNewSession's request is answered in this step.
NewSessionAnswered ==
  /\ createSessionMutation.caller = "handleNewSession"
  /\ createSessionMutation.status = "pending"
  /\ createSessionMutation'.status # "pending"

\* C29: the step that starts handleNewSession leaves the current session id
\* and the displayed messages as they are; when its request is answered, a
\* success puts the new session on display and empties the displayed list,
\* and a failure leaves both unchanged.
C29_NewSessionOnlyOnSuccess ==
  [][/\ (createSessionMutation.status # "pending"
           /\ createSessionMutation'.caller = "handleNewSession"
           /\ createSessionMutation'.status = "pending") =>
          /\ currentSessionId' = currentSessionId
          /\ chatMessages' = chatMessages
     /\ NewSessionAnswered =>
          IF createSessionMutation'.status = "success"
            THEN /\ currentSessionId' = Len(serverMessages')
                 /\ currentSessionId' # currentSessionId
                 /\ chatMessages' = <<>>
            ELSE /\ createSessionMutation'.status = "error"
                 /\ currentSessionId' = currentSessionId
                 /\ chatMessages' = chatMessages]_vars

\* handleNewSession has succeeded from a session whose messages were on
\* display: the second session is current and nothing is displayed.
C29_Witness ==
  /\ createSessionMutation = [status |-> "success", caller |-> "handleNewSession"]
  /\ currentSessionId = 2
  /\ messagesCache[1].defined
  /\ messagesCache[1].value # <<>>
  /\ chatMessages = <<>>

\* ---------------------------------------------------- EnhancedScamDetection
MaxAnalyses == 3

\* What the user types into the message box.
MessageTexts == {"", "   ", UrgentVerifyText}

\* The milliseconds analyzeText, analyzeVoice and analyzeVideo wait before
\* they compute their result.
TextDelay == 1500
VoiceDelay == 3000
VideoDelay == 4000

Delay(kind) ==
  CASE kind = "text" -> TextDelay
    [] kind = "voice" -> VoiceDelay
    [] kind = "video" -> VideoDelay

\* onChange of the message box.
SetMessageText(value) ==
  /\ value # messageText
  /\ messageText' = value
  /\ UNCHANGED <<isAnalyzing, analysisResult, voiceAnalysis, videoAnalysis,
                 analyses, started, aiVars, chatVars, authVars, threatVars>>

\* An analysis handler up to its await: setIsAnalyzing(true), then the call
\* of the service (the instance the render got from getInstance), which sets
\* its timer.
StartAnalysis(kind, text) ==
  /\ started < MaxAnalyses
  /\ isAnalyzing' = TRUE
  /\ analyses' = Append(analyses, [kind |-> kind, text |-> text, n |-> started + 1])
  /\ started' = started + 1
  /\ UNCHANGED <<messageText, analysisResult, voiceAnalysis, videoAnalysis,
                 aiVars, chatVars, authVars, threatVars>>

\* analyzeMessage, the onClick of a button that is disabled while the message
\* is blank or isAnalyzing is true.
AnalyzeMessage ==
  /\ instance # NoInstance
  /\ Trim(messageText) # ""
  /\ ~isAnalyzing
  /\ StartAnalysis("text", messageText)

\* analyzeVoiceFile(file), called by the onChange of the audio file input,
\* which is never disabled.
AnalyzeVoiceFile ==
  /\ instance # NoInstance
  /\ StartAnalysis("voice", "")

\* analyzeVideoFile(file), called by the onChange of the video file input,
\* which is never disabled.
AnalyzeVideoFile ==
  /\ instance # NoInstance
  /\ StartAnalysis("video", "")

\* The timers fire in the order of their due times: the analysis at position
\* p can end when no analysis started before it has a delay as short or
\* shorter (one started later with a shorter delay can end first).
CanEnd(p) ==
  \A q \in 1..(p - 1) : Delay(analyses[q].kind) > Delay(analyses[p].kind)

RemoveAt(seq, p) == SubSeq(seq, 1, p - 1) \o SubSeq(seq, p + 1, Len(seq))

\* The analysis at position p resolves: the handler stores the result and
\* runs its finally block, setIsAnalyzing(false), whatever else is in flight.
\* The services do not reject.
AnalysisEnds(p) ==
  /\ CanEnd(p)
  /\ LET a == analyses[p]
     IN \E random \in RandomValues, verdict \in BOOLEAN :
          /\ analysisResult' =
               IF a.kind = "text"
                 THEN Analysis(AnalyzeTextReturn(a.text, LocalsOf[a.text], random))
                 ELSE analysisResult
          /\ voiceAnalysis' =
               IF a.kind = "voice"
                 THEN Analysis([isAISynthetic |-> verdict]) ELSE voiceAnalysis
          /\ videoAnalysis' =
               IF a.kind = "video"
                 THEN Analysis([isDeepfake |-> verdict]) ELSE videoAnalysis
  /\ analyses' = RemoveAt(analyses, p)
  /\ isAnalyzing' = FALSE
  /\ UNCHANGED <<messageText, started, aiVars, chatVars, authVars, threatVars>>

NextScam ==
  \/ getInstance
  \/ \E value \in MessageTexts : SetMessageText(value)
  \/ AnalyzeMessage
  \/ AnalyzeVoiceFile
  \/ AnalyzeVideoFile
  \/ \E p \in 1..Len(analyses) : AnalysisEnds(p)

SpecScam == Init /\ [][NextScam]_vars

\* ---- C26
\* C26: isAnalyzing is true in every state in which an analysis that the
\* component started is still in flight.
C26_AnalyzingWhileInFlight == analyses # <<>> => isAnalyzing

\* ---- C27
\* From the greatest key down, equal keys allowed.
IsDescending(array, key) ==
  \A k \in 1..(Len(array) - 1) : array[k][key] >= array[k + 1][key]

Ids(array) == {array[k].id : k \in 1..Len(array)}

\* C27: generateMockThreats and generateDarkWebIntel each run at most once, in
\* the first call that needs the array.  From then on every call of
\* getRecentThreats, getThreatsByLocation, getThreatStatistics and
\* getDarkWebIntelligence leaves this.threats and this.darkWebIntel as they
\* are, elements, fields and order; they hold the 15 alerts with ids 1..15
\* from the newest timestamp to the oldest and the 8 entries with ids 1..8
\* from the newest lastSeen to the oldest, and getRecentThreats and
\* getDarkWebIntelligence return exactly these arrays.
C27_GeneratedOnceSameOrder ==
  /\ [](/\ generated.threats <= 1 /\ generated.darkWebIntel <= 1
        /\ threats # <<>> =>
             /\ generated.threats = 1
             /\ Len(threats) = 15 /\ Ids(threats) = 1..15
             /\ IsDescending(threats, "timestamp")
        /\ darkWebIntel # <<>> =>
             /\ generated.darkWebIntel = 1
             /\ Len(darkWebIntel) = 8 /\ Ids(darkWebIntel) = 1..8
             /\ IsDescending(darkWebIntel, "lastSeen")
        /\ returned.method = "getRecentThreats" => returned.value = threats
        /\ returned.method = "getDarkWebIntelligence" => returned.value = darkWebIntel)
  /\ [][/\ threats # <<>> => threats' = threats
        /\ darkWebIntel # <<>> => darkWebIntel' = darkWebIntel]_vars

\* The third call on the instance is a getRecentThreats that found the
\* alerts generated: it returns them, alerts with equal timestamps among
\* them, in an order that is not the order of generation; the dark-web
\* entries have been generated as well.
C27_Witness ==
  /\ returned.nth = 3
  /\ returned.method = "getRecentThreats"
  /\ generated = [threats |-> 1, darkWebIntel |-> 1]
  /\ returned.value = threats
  /\ \E k \in 1..14 :
       /\ threats[k].timestamp = threats[k + 1].timestamp
       /\ threats[k].id < threats[k + 1].id
  /\ \E k \in 1..14 : threats[k].id > threats[k + 1].id

\* ---- C28
\* C28: each of AIAnalysisService and ThreatIntelligenceService constructs at
\* most one object, and every call of its getInstance returns that object:
\* the static field, once set, is never set again.
C28_OneInstanceEach ==
  /\ [](/\ constructed <= 1
        /\ threatConstructed <= 1
        /\ \A k \in 1..Len(handles) : handles[k] = 1 /\ handles[k] = instance
        /\ \A k \in 1..Len(threatHandles) :
             threatHandles[k] = 1 /\ threatHandles[k] = threatInstance)
  /\ [][/\ instance # NoInstance => instance' = instance
        /\ threatInstance # NoInstance => threatInstance' = threatInstance]_vars

\* getInstance has been called twice on each service: one object each, and
\* both calls returned it.
C28_Witness ==
  /\ handles = <<1, 1>>
  /\ threatHandles = <<1, 1>>
  /\ constructed = 1
  /\ threatConstructed = 1

=============================================================================
